---- MODULE Spec2Model ----
(***************************************************************************)
(* Streamlens: the expiring cache (cache.py), the extraction service       *)
(* (extractor.py) and the batch orchestrator (batch.py) as state machines. *)
(*                                                                         *)
(* The specifications share the variables below:                           *)
(*   SpecCache  threads calling get/set/len of one TTLCache instance,      *)
(*              stepped at the granularity of the statements of cache.py;  *)
(*   Spec       batch_get_info calls: one task per URL under the           *)
(*              semaphore, each running extract_video_info;                *)
(*   SpecLive   batch calls of more URLs than permits, with the fairness   *)
(*              of the event loop;                                         *)
(*   SpecOps    callers of the caching operations of extractor.py and      *)
(*              batch.py (added with the operations below);                *)
(*   SpecFn     the functions without state, detect_platform and           *)
(*              _map_error, applied to inputs drawn in the initial state.  *)
(*   SpecSel    _select_formats and the selection of extract_audio_url,    *)
(*              applied to lists of formats drawn in the initial state;    *)
(*   SpecSub    parse_subtitles, applied to subtitle texts drawn in the    *)
(*              initial state;                                             *)
(*   SpecPl     calls of extract_playlist_info with any max_videos and the *)
(*              backend's record as a dict;                                *)
(*   SpecSsh    _build_ytdlp_cli_args, ssh_extract and                     *)
(*              ssh_extract_subtitles (ssh.py), applied to options and to  *)
(*              outcomes of the remote command drawn in the initial state. *)
(* A specification leaves the variables of the others at their initial     *)
(* values.                                                                 *)
(***************************************************************************)
EXTENDS Naturals, Integers, Sequences, FiniteSets, TLC

VARIABLES
    now,        \* time.monotonic(), in whole seconds
    store,      \* TTLCache._store of the instance under test: key -> <<ts, value>>
    ttl,        \* TTLCache._ttl of the instance under test
    lock,       \* TTLCache._lock: the thread holding it, or Free
    threads,    \* per thread: position in get/set/__len__, locals, return value
    lastSet,    \* history: per key, <<T, v>> of the latest set, or None
    prevSet,    \* history: per key, <<T, v>> of the set before the latest, or None
    gone,       \* history: per key, a get found it absent since its latest set
    serial,     \* history: the store after the operations so far, run one at a time
    nops,       \* history: number of cache operations begun
    cache,      \* extractor._cache._store: key -> <<ts, value>>
    nelapse,    \* history: number of times the clock was advanced under Spec
    bpc,        \* batch_get_info: "idle", "gather" (awaiting gather), "returned", "raised"
    urls,       \* batch_get_info: its argument
    sem,        \* asyncio.Semaphore._value of the call (0 before the first call)
    waiters,    \* asyncio.Semaphore._waiters: the tasks blocked in acquire, in order
    tasks,      \* per position of urls: the task running _extract_one(urls[i])
    bres,       \* what batch_get_info returned or raised
    ahead,      \* history: a task returned before the task of an earlier position
    pcache,     \* batch._cache._store: key -> <<ts, value>>
    opcalls,    \* per caller: its call of a caching operation, its locals and return
    lastStore,  \* history: the results the operations stored, latest per call
    ncalls,     \* history: number of calls of caching operations begun
    farg,       \* the argument drawn for the function under test
    fout,       \* what the function returned or raised for farg
    fagain,     \* the function applied once more: to farg, to the canonical URL
                \* returned, to the subtitle text without its last cue
    fother      \* SpecFn: a second URL and what detect_platform returned for it

cacheVars == <<store, ttl, lock, threads, lastSet, prevSet, gone, serial, nops>>

svcVars == <<cache, nelapse>>

batchVars == <<bpc, urls, sem, waiters, tasks, bres, ahead>>

opsVars == <<pcache, opcalls, lastStore, ncalls>>

fnVars == <<farg, fout, fagain, fother>>

vars == <<now, cacheVars, svcVars, batchVars, opsVars, fnVars>>

\* Python's None, where the other values are tuples or records
None == << >>

\* threading.Lock held by nobody
Free == "free"

-----------------------------------------------------------------------------
(* Bounds of the model. *)

\* the clock of SpecCache runs from 0 to MaxTime
MaxTime == 3

\* cache operations begun in one behaviour of SpecCache
MaxCacheOps == 3

Threads == {"t1", "t2"}

Keys == {"k1", "k2"}

Values == {[v |-> "v1"], [v |-> "v2"]}

\* ttl_seconds given to the TTLCache under test (0: every entry is born expired)
TtlChoices == {0, 1, 2}

\* the lists given to batch_get_info have every length up to MaxLen (and 10 and 11)
MaxLen == 3

\* advances of the clock in one behaviour of Spec
MaxElapse == 1

\* calls of caching operations in one run
MaxCalls == 2

\* words in a message given to _map_error
MaxWords == 3

-----------------------------------------------------------------------------
(* cache.py *)

DEFAULT_TTL_SECONDS == 600

\* the dict with key k removed (del self._store[k]; a missing key is left alone)
DictDel(d, k) == [x \in (DOMAIN d) \ {k} |-> d[x]]

\* the dict with d[k] = e
DictPut(d, k, e) == [x \in (DOMAIN d) \cup {k} |-> IF x = k THEN e ELSE d[x]]

\* dict.get(key): the entry or None
DictGet(d, k) == IF k \in DOMAIN d THEN d[k] ELSE None

Expired_strict(s, clock, t) == {k \in DOMAIN s : clock - s[k][1] > t}

\* the scan that takes every entry for expired
Expired_all(s, clock, t) == DOMAIN s

\* cache.py:37  expired = [k for k, (ts, _) in self._store.items() if now - ts >= self._ttl]
Expired(s, clock, t) == {k \in DOMAIN s : clock - s[k][1] >= t}

\* cache.py:34-39  TTLCache._evict_expired, as one step
_evict_expired(s, clock, t) == [x \in (DOMAIN s) \ Expired(s, clock, t) |-> s[x]]

\* cache.py:23-27  the lookup of get: entry[1], or None when there is no entry
Lookup(s, key) == IF DictGet(s, key) = None THEN None ELSE DictGet(s, key)[2]

set_keep_ts(s, key, value, clock) ==
    DictPut(s, key, <<IF key \in DOMAIN s THEN s[key][1] ELSE clock, value>>)

\* cache.py:32  self._store[key] = (time.monotonic(), value)
TTLCache_set(s, key, value, clock) == DictPut(s, key, <<clock, value>>)

\* cache.py:20-27  TTLCache.get as one step: the store after it and the value returned
TTLCache_get(s, key, clock, t) ==
    [store |-> _evict_expired(s, clock, t),
     ret   |-> Lookup(_evict_expired(s, clock, t), key)]

\* cache.py:41-44  TTLCache.__len__ as one step
TTLCache_len(s, clock, t) ==
    [store |-> _evict_expired(s, clock, t),
     ret   |-> Cardinality(DOMAIN _evict_expired(s, clock, t))]

-----------------------------------------------------------------------------
(* Threads on one TTLCache: get, set and __len__ statement by statement.   *)
(* pc: idle -> (get, len: evict_now -> evict_scan -> evict_del) -> body    *)
(* -> idle; the lock is taken on leaving idle and released on return.      *)

NoOp == [name |-> "none", key |-> "", value |-> None]

\* pc, op, now, expired, ret: the thread's position, call and locals.
\* History, taken when the thread gets the lock: seen and before, the latest set of
\* op.key and the one before it; stale, a get found op.key absent since that set.
\* History, taken when the clock is read: live, the number of keys whose latest set
\* is younger than ttl; expect, what the operation returns when run as one step.
IdleThread ==
    [pc |-> "idle", op |-> NoOp, now |-> 0, expired |-> {}, ret |-> None,
     seen |-> None, before |-> None, stale |-> FALSE, live |-> 0, expect |-> None]

Inside == {t \in Threads : threads[t].pc # "idle"}

\* the keys whose latest set is younger than ttl at time clock
LiveKeys(clock) == {k \in Keys : lastSet[k] # None /\ clock - lastSet[k][1] < ttl}

acquire_unguarded(t) == lock' = t

\* cache.py:21,31,43  with self._lock: (blocks while another thread holds it)
acquire(t) == lock = Free /\ lock' = t

\* with-exit: the lock is released
release(t) == lock' = Free

\* a thread calls get(key), set(key, value) or len() and takes the lock
Begin(t, name, key, value) ==
    /\ nops < MaxCacheOps
    /\ threads[t].pc = "idle"
    /\ acquire(t)
    /\ threads' = [threads EXCEPT ![t] =
            [IdleThread EXCEPT !.pc = IF name = "set" THEN "body" ELSE "evict_now",
                               !.op = [name |-> name, key |-> key, value |-> value],
                               !.seen = IF name = "get" THEN lastSet[key] ELSE None,
                               !.before = IF name = "get" THEN prevSet[key] ELSE None,
                               !.stale = IF name = "get" THEN gone[key] ELSE FALSE]]
    /\ nops' = nops + 1
    /\ UNCHANGED <<now, store, ttl, lastSet, prevSet, gone, serial>>

\* the operation of thread t run as one step on store s at time clock
Atomic(t, s, clock) ==
    IF threads[t].op.name = "get" THEN TTLCache_get(s, threads[t].op.key, clock, ttl)
    ELSE TTLCache_len(s, clock, ttl)

\* cache.py:36  now = time.monotonic()
EvictNow(t) ==
    /\ threads[t].pc = "evict_now"
    /\ threads' = [threads EXCEPT ![t].pc = "evict_scan",
                                  ![t].now = now,
                                  ![t].live = Cardinality(LiveKeys(now)),
                                  ![t].expect = Atomic(t, serial, now).ret]
    /\ serial' = Atomic(t, serial, now).store
    /\ UNCHANGED <<now, store, ttl, lock, lastSet, prevSet, gone, nops>>

\* cache.py:37  expired = [...]
EvictScan(t) ==
    /\ threads[t].pc = "evict_scan"
    /\ threads' = [threads EXCEPT ![t].pc = "evict_del",
                                  ![t].expired = Expired(store, threads[t].now, ttl)]
    /\ UNCHANGED <<now, store, ttl, lock, lastSet, prevSet, gone, serial, nops>>

\* cache.py:38-39  for k in expired: del self._store[k]   (one key per step)
EvictDel(t) ==
    /\ threads[t].pc = "evict_del"
    /\ \/ /\ threads[t].expired = {}
          /\ threads' = [threads EXCEPT ![t].pc = "body"]
          /\ UNCHANGED store
       \/ \E k \in threads[t].expired :
            /\ store' = DictDel(store, k)
            /\ threads' = [threads EXCEPT ![t].expired = @ \ {k}]
    /\ UNCHANGED <<now, ttl, lock, lastSet, prevSet, gone, serial, nops>>

\* cache.py:23-27  entry = self._store.get(key); return None / entry[1]
GetBody(t) ==
    /\ threads[t].pc = "body"
    /\ threads[t].op.name = "get"
    /\ threads' = [threads EXCEPT ![t].pc = "idle",
                                  ![t].ret = Lookup(store, threads[t].op.key)]
    /\ gone' = [gone EXCEPT ![threads[t].op.key] =
                    @ \/ Lookup(store, threads[t].op.key) = None]
    /\ release(t)
    /\ UNCHANGED <<now, store, ttl, lastSet, prevSet, serial, nops>>

\* cache.py:32  self._store[key] = (time.monotonic(), value)
SetBody(t) ==
    /\ threads[t].pc = "body"
    /\ threads[t].op.name = "set"
    /\ store' = TTLCache_set(store, threads[t].op.key, threads[t].op.value, now)
    /\ threads' = [threads EXCEPT ![t].pc = "idle", ![t].now = now]
    /\ lastSet' = [lastSet EXCEPT ![threads[t].op.key] = <<now, threads[t].op.value>>]
    /\ prevSet' = [prevSet EXCEPT ![threads[t].op.key] = lastSet[threads[t].op.key]]
    /\ gone' = [gone EXCEPT ![threads[t].op.key] = FALSE]
    /\ serial' = TTLCache_set(serial, threads[t].op.key, threads[t].op.value, now)
    /\ release(t)
    /\ UNCHANGED <<now, ttl, nops>>

\* cache.py:44  return len(self._store)
LenBody(t) ==
    /\ threads[t].pc = "body"
    /\ threads[t].op.name = "len"
    /\ threads' = [threads EXCEPT ![t].pc = "idle",
                                  ![t].ret = Cardinality(DOMAIN store)]
    /\ release(t)
    /\ UNCHANGED <<now, store, ttl, lastSet, prevSet, gone, serial, nops>>

\* the monotonic clock advances
Tick ==
    /\ now < MaxTime
    /\ now' = now + 1
    /\ UNCHANGED cacheVars


-----------------------------------------------------------------------------
(* Python values.  A str is a record holding its text as a sequence of      *)
(* pieces (a piece is a letter, or a run of characters that the patterns    *)
(* and searches below never split); None is the empty tuple.                *)

Str(text) == [type |-> "str", text |-> text]

NotStr == [type |-> "int", text |-> << >>]

IsStr(x) == x.type = "str"

Whitespace == {" "}

RECURSIVE lstrip(_)
lstrip(text) ==
    IF text # << >> /\ Head(text) \in Whitespace THEN lstrip(Tail(text)) ELSE text

RECURSIVE rstrip(_)
rstrip(text) ==
    IF text # << >> /\ text[Len(text)] \in Whitespace
    THEN rstrip(SubSeq(text, 1, Len(text) - 1)) ELSE text

\* str.strip()
strip(text) == rstrip(lstrip(text))

-----------------------------------------------------------------------------
(* platforms.py: the pattern registry and detect_platform.  A pattern is a  *)
(* sequence of elements matched against the pieces of the URL as re.search  *)
(* matches: leftmost start first, then each element greedily, backtracking. *)

YOUTUBE == "youtube"
TIKTOK == "tiktok"
DOUYIN == "douyin"

\* pieces that are 11 characters of [a-zA-Z0-9_-]
Id11 == {"dQw4w9WgXcQ", "abcdefghijk"}

\* pieces that are runs of digits
Digits == {"7123456789", "42"}

\* pieces that are runs of [a-zA-Z0-9]
Alnum == Digits \cup {"ZMabc", "user1", "abcdefghijk"}

\* pieces holding a "/" and pieces holding a "?"
WithSlash == {"https://", "http://", "/", "/watch?", "/shorts/", "/embed/", "/@",
              "/video/", "/user/"}

WithQuery == {"?", "/watch?"}

Pieces ==
    Id11 \cup Alnum \cup WithSlash \cup WithQuery \cup Whitespace \cup
    {"www.", "m.", "vm.", "v.", "youtube.com", "youtu.be", "tiktok.com", "douyin.com",
     "example.com", "v=", "modal_id=", "&", "t=10s", "audio:", ":", "best"}

Lit(v) == [t |-> "lit", set |-> {v}]
Opt(set) == [t |-> "opt", set |-> set]
Star(set) == [t |-> "star", set |-> set]
Plus(set) == [t |-> "plus", set |-> set]
Cap(set) == [t |-> "cap", set |-> set]

Scheme == Opt({"https://", "http://"})
Www == Opt({"www."})

\* platforms.py:28-62  _PLATFORM_PATTERNS: (platform, pattern, has_id)
_PLATFORM_PATTERNS ==
    << <<YOUTUBE, <<Scheme, Www, Lit("youtube.com"), Lit("/watch?"), Star(Pieces),
                    Lit("v="), Cap(Id11)>>, TRUE>>,
       <<YOUTUBE, <<Scheme, Lit("youtu.be"), Lit("/"), Cap(Id11)>>, TRUE>>,
       <<YOUTUBE, <<Scheme, Www, Lit("youtube.com"), Lit("/shorts/"), Cap(Id11)>>, TRUE>>,
       <<YOUTUBE, <<Scheme, Www, Lit("youtube.com"), Lit("/embed/"), Cap(Id11)>>, TRUE>>,
       <<YOUTUBE, <<Scheme, Lit("m."), Lit("youtube.com"), Lit("/watch?"), Star(Pieces),
                    Lit("v="), Cap(Id11)>>, TRUE>>,
       <<TIKTOK, <<Scheme, Www, Lit("tiktok.com"), Lit("/@"), Plus(Pieces \ WithSlash),
                   Lit("/video/"), Cap(Digits)>>, TRUE>>,
       <<TIKTOK, <<Scheme, Lit("vm."), Lit("tiktok.com"), Lit("/"), Plus(Alnum)>>, FALSE>>,
       <<DOUYIN, <<Scheme, Www, Lit("douyin.com"), Lit("/video/"), Cap(Digits)>>, TRUE>>,
       <<DOUYIN, <<Scheme, Www, Lit("douyin.com"), Lit("/user/"), Plus(Pieces \ WithQuery),
                   Lit("?"), Star(Pieces), Lit("modal_id="), Cap(Digits)>>, TRUE>>,
       <<DOUYIN, <<Scheme, Lit("v."), Lit("douyin.com"), Lit("/"), Plus(Alnum)>>, FALSE>> >>

\* the length of the longest run of pieces of text from position i that lie in set
RECURSIVE Run(_, _, _)
Run(text, i, set) ==
    IF i <= Len(text) /\ text[i] \in set THEN 1 + Run(text, i + 1, set) ELSE 0

\* The match of pattern p from its element k on, at position i of text: the first
\* one in the order re tries them (an optional or repeated element takes all it
\* can, then less), as the group "id" it captured; None when nothing matches.
RECURSIVE MatchFrom(_, _, _, _, _), MatchRepeat(_, _, _, _, _, _, _)
MatchFrom(p, k, text, i, id) ==
    IF k > Len(p) THEN [id |-> id]
    ELSE LET e == p[k]
             here == i <= Len(text) /\ text[i] \in e.set
         IN  CASE e.t = "lit" ->
                    IF here THEN MatchFrom(p, k + 1, text, i + 1, id) ELSE None
               [] e.t = "cap" ->
                    IF here THEN MatchFrom(p, k + 1, text, i + 1, Str(<<text[i]>>))
                    ELSE None
               [] e.t = "opt" ->
                    LET taken == IF here THEN MatchFrom(p, k + 1, text, i + 1, id)
                                 ELSE None
                    IN  IF taken # None THEN taken
                        ELSE MatchFrom(p, k + 1, text, i, id)
               [] e.t = "star" ->
                    MatchRepeat(p, k, text, i, id, Run(text, i, e.set), 0)
               [] e.t = "plus" ->
                    MatchRepeat(p, k, text, i, id, Run(text, i, e.set), 1)

\* element k of p taking n pieces, then n - 1, ... down to least
MatchRepeat(p, k, text, i, id, n, least) ==
    IF n < least THEN None
    ELSE LET rest == MatchFrom(p, k + 1, text, i + n, id)
         IN  IF rest # None THEN rest
             ELSE MatchRepeat(p, k, text, i, id, n - 1, least)

\* the match of p at the leftmost position of text, from i on, that has one
RECURSIVE SearchFrom(_, _, _)
SearchFrom(p, text, i) ==
    IF i > Len(text) + 1 THEN None
    ELSE LET m == MatchFrom(p, 1, text, i, None)
         IN  IF m # None THEN m ELSE SearchFrom(p, text, i + 1)

\* pattern.search(stripped): the match re returns, or None
search(p, text) == SearchFrom(p, text, 1)

InvalidURLError(msg) == [exc |-> "InvalidURLError", msg |-> Str(msg)]

\* platforms.py:75-89  the result for the rule that matched
URLValidationResult(platform, canonical, video_id) ==
    [ok |-> TRUE, platform |-> platform, canonical_url |-> canonical,
     video_id |-> video_id]

\* Canonical with the Douyin canonical URL in the short-link form
Canonical_short_link(platform, has_id, m, stripped) ==
    LET video_id == IF has_id THEN m.id ELSE None
    IN  IF platform = YOUTUBE
        THEN URLValidationResult(platform,
                <<"https://", "www.", "youtube.com", "/watch?", "v=">> \o video_id.text,
                video_id)
        ELSE IF platform = DOUYIN /\ video_id # None
        THEN URLValidationResult(platform,
                <<"https://", "v.", "douyin.com", "/">> \o video_id.text,
                video_id)
        ELSE URLValidationResult(platform, stripped, video_id)

\* Canonical with the Douyin branch left out
Canonical_keeps_input(platform, has_id, m, stripped) ==
    LET video_id == IF has_id THEN m.id ELSE None
    IN  IF platform = YOUTUBE
        THEN URLValidationResult(platform,
                <<"https://", "www.", "youtube.com", "/watch?", "v=">> \o video_id.text,
                video_id)
        ELSE URLValidationResult(platform, stripped, video_id)

\* platforms.py:77-89  the canonical URL and the result for the rule that matched
Canonical(platform, has_id, m, stripped) ==
    LET video_id == IF has_id THEN m.id ELSE None
    IN  IF platform = YOUTUBE
        THEN URLValidationResult(platform,
                <<"https://", "www.", "youtube.com", "/watch?", "v=">> \o video_id.text,
                video_id)
        ELSE IF platform = DOUYIN /\ video_id # None
        THEN URLValidationResult(platform,
                <<"https://", "www.", "douyin.com", "/video/">> \o video_id.text,
                video_id)
        ELSE URLValidationResult(platform, stripped, video_id)

\* the loop over the rules taken from the last rule to the first
RECURSIVE FirstRule_from_last(_, _)
FirstRule_from_last(stripped, r) ==
    IF r > Len(_PLATFORM_PATTERNS)
    THEN [ok |-> FALSE,
          error |-> InvalidURLError(<<"Unsupported or invalid URL: ">> \o stripped)]
    ELSE LET q == Len(_PLATFORM_PATTERNS) + 1 - r
             m == search(_PLATFORM_PATTERNS[q][2], stripped)
         IN  IF m # None
             THEN Canonical(_PLATFORM_PATTERNS[q][1], _PLATFORM_PATTERNS[q][3],
                            m, stripped)
             ELSE FirstRule_from_last(stripped, r + 1)

\* the loop over the rules that stops before the last rule
RECURSIVE FirstRule_skips_last(_, _)
FirstRule_skips_last(stripped, r) ==
    IF r > Len(_PLATFORM_PATTERNS) - 1
    THEN [ok |-> FALSE,
          error |-> InvalidURLError(<<"Unsupported or invalid URL: ">> \o stripped)]
    ELSE LET m == search(_PLATFORM_PATTERNS[r][2], stripped)
         IN  IF m # None
             THEN Canonical(_PLATFORM_PATTERNS[r][1], _PLATFORM_PATTERNS[r][3],
                            m, stripped)
             ELSE FirstRule_skips_last(stripped, r + 1)

\* platforms.py:75-91  the loop over the rules from rule r on
RECURSIVE FirstRule(_, _)
FirstRule(stripped, r) ==
    IF r > Len(_PLATFORM_PATTERNS)
    THEN [ok |-> FALSE,
          error |-> InvalidURLError(<<"Unsupported or invalid URL: ">> \o stripped)]
    ELSE LET m == search(_PLATFORM_PATTERNS[r][2], stripped)
         IN  IF m # None
             THEN Canonical(_PLATFORM_PATTERNS[r][1], _PLATFORM_PATTERNS[r][3],
                            m, stripped)
             ELSE FirstRule(stripped, r + 1)

\* platforms.py:65-91  detect_platform: the result, or the InvalidURLError raised
detect_platform(url) ==
    IF ~IsStr(url)
    THEN [ok |-> FALSE, error |-> InvalidURLError(<<"URL must be a non-empty string">>)]
    ELSE LET stripped == strip(url.text)
         IN  IF stripped = << >>
             THEN [ok |-> FALSE,
                   error |-> InvalidURLError(<<"URL must be a non-empty string">>)]
             ELSE FirstRule(stripped, 1)

\* validators.validate_url, imported by extractor.py and batch.py: the resolver
validate_url(url) == detect_platform(url)

-----------------------------------------------------------------------------
(* extractor.py: exceptions, the backend call and extract_video_info.       *)

Exception(class, msg) == [exc |-> class, msg |-> msg]

\* str(exc)
str(exc) == exc.msg

\* extractor.py:22-35  ExtractionError and its subclasses
ExtractionErrors ==
    {"ExtractionError", "GeoRestrictionError", "VideoUnavailableError",
     "TranscriptionError"}

UpperCase == <<"A", "B", "C", "D", "E", "F", "G", "H", "I", "J", "K", "L", "M",
               "N", "O", "P", "Q", "R", "S", "T", "U", "V", "W", "X", "Y", "Z">>

LowerCase == <<"a", "b", "c", "d", "e", "f", "g", "h", "i", "j", "k", "l", "m",
               "n", "o", "p", "q", "r", "s", "t", "u", "v", "w", "x", "y", "z">>

\* str.lower(), letter by letter
lower(text) ==
    [i \in 1..Len(text) |->
        IF \E j \in 1..Len(UpperCase) : UpperCase[j] = text[i]
        THEN LowerCase[CHOOSE j \in 1..Len(UpperCase) : UpperCase[j] = text[i]]
        ELSE text[i]]

\* sub in text
Contains(text, sub) ==
    \E i \in 1..(Len(text) + 1) :
        /\ i + Len(sub) - 1 <= Len(text)
        /\ SubSeq(text, i, i + Len(sub) - 1) = sub

_map_error_unavailable_first(msg) ==
    IF \/ Contains(lower(msg.text), <<"p", "r", "i", "v", "a", "t", "e">>)
       \/ Contains(lower(msg.text),
                   <<"u", "n", "a", "v", "a", "i", "l", "a", "b", "l", "e">>)
    THEN Exception("VideoUnavailableError", msg)
    ELSE IF Contains(lower(msg.text), <<"g", "e", "o">>)
    THEN Exception("GeoRestrictionError", msg)
    ELSE Exception("ExtractionError", msg)

\* extractor.py:38-48  _map_error: the exception it raises
_map_error(msg) ==
    IF Contains(lower(msg.text), <<"g", "e", "o">>)
    THEN Exception("GeoRestrictionError", msg)
    ELSE IF \/ Contains(lower(msg.text), <<"p", "r", "i", "v", "a", "t", "e">>)
            \/ Contains(lower(msg.text),
                        <<"u", "n", "a", "v", "a", "i", "l", "a", "b", "l", "e">>)
    THEN Exception("VideoUnavailableError", msg)
    ELSE Exception("ExtractionError", msg)

\* What one run of the backend (yt_dlp.YoutubeDL.extract_info) does: it returns a
\* record (rev tells one run's record from another's; complete: it has what the
\* caller goes on to read, a well-formed duration, a subtitle track, an audio-only
\* format), returns None, raises DownloadError(msg), or raises something else.
Revs == {1, 2}

GeoMsg == Str(<<"ERROR: ", "G", "e", "o", " restricted">>)

DownloadMsgs ==
    {GeoMsg,
     Str(<<"V", "i", "d", "e", "o", " ", "u", "n", "a", "v", "a", "i", "l", "a", "b", "l", "e">>),
     Str(<<"ERROR: ", "t", "i", "m", "e", "d", " out">>)}

BackendOutcomes ==
    [kind : {"info"}, rev : Revs, complete : BOOLEAN]
        \cup {[kind |-> "none"]}
        \cup [kind : {"DownloadError"}, msg : DownloadMsgs]
        \cup {[kind |-> "OSError", msg |-> Str(<<"disk full">>)]}

\* the outcomes drawn for the tasks of a batch of n URLs: one record and every
\* failure for a short batch; one record, one DownloadError and one exception
\* that is no ExtractionError for a long one
BatchOutcomes(n) ==
    {o \in BackendOutcomes :
        /\ o.kind = "info" => (o.rev = 1 /\ o.complete)
        /\ n > MaxLen =>
                (o.kind \in {"info", "OSError"}
                    \/ (o.kind = "DownloadError" /\ o.msg = GeoMsg))}

\* extractor.py:101-115  _sync_extract, for the outcome of its backend run
_sync_extract(url, platform, outcome) ==
    CASE outcome.kind = "info" ->
            [ok |-> TRUE,
             info |-> [webpage_url |-> url, rev |-> outcome.rev,
                       complete |-> outcome.complete]]
      [] outcome.kind = "none" ->
            [ok |-> FALSE,
             error |-> Exception("ExtractionError", Str(<<"No info returned for ">> \o url))]
      [] outcome.kind = "DownloadError" ->
            [ok |-> FALSE, error |-> _map_error(outcome.msg)]
      [] OTHER ->
            [ok |-> FALSE, error |-> Exception(outcome.kind, outcome.msg)]

\* extractor.py:95-99  _PLATFORM_CONFIG_KEY: YouTube has no settings of its own
_PLATFORM_CONFIG_KEY(platform) ==
    IF platform = YOUTUBE THEN None ELSE platform

\* config.py:13-22  _env("SSH_HOST", platform_key) in an environment env that
\* holds STREAMLENS_SSH_HOST (env.global) and the platform's
\* STREAMLENS_{PLATFORM}_SSH_HOST (env.platform), "" when unset
_env(env, platform_key) ==
    IF platform_key # None /\ strip(env.platform) # << >>
    THEN strip(env.platform)
    ELSE strip(env.global)

\* config.py:62-70  load_ssh_config: the host, or None
load_ssh_config(env, platform_key) ==
    LET host == _env(env, platform_key)
    IN  IF host # << >> THEN Str(host) ELSE None

\* extractor.py:101-115  the backends _sync_extract invokes in environment env,
\* and how often: yt_dlp.YoutubeDL.extract_info at line 108, whatever env holds
\* (load_ssh_config is not called and ssh.ssh_extract is not reached)
_sync_extract_invokes(env, platform) == [local |-> 1, remote |-> 0]

\* extractor.py:243-268  _process_info_dict (int(duration) raises on a malformed one)
_process_info_dict(info, platform) ==
    IF info.complete
    THEN [ok |-> TRUE,
          value |-> [type |-> "VideoInfo", webpage_url |-> info.webpage_url,
                     platform |-> platform, rev |-> info.rev]]
    ELSE [ok |-> FALSE,
          error |-> Exception("ValueError", Str(<<"invalid literal for int()">>))]

\* models.py  VideoInfo.to_dict
to_dict(info) == [info EXCEPT !.type = "dict"]

\* extractor.py:278-286  extract_video_info up to its await: it raises, returns the
\* cached value, or awaits the backend with the validation in hand
extract_video_info_start(url, c, clock) ==
    LET validation == validate_url(url)
        got == TTLCache_get(c, validation.canonical_url, clock, DEFAULT_TTL_SECONDS)
    IN  IF ~validation.ok
        THEN [status |-> "raise", value |-> validation.error, cache |-> c]
        ELSE IF got.ret # None
        THEN [status |-> "return", value |-> got.ret, cache |-> got.store]
        ELSE [status |-> "await", value |-> validation, cache |-> got.store]

\* the rest of extract_video_info with a second lookup before the store: the
\* result another call stored meanwhile is returned and kept
extract_video_info_resume_single_flight(validation, outcome, c, clock) ==
    LET ran == _sync_extract(validation.canonical_url, validation.platform, outcome)
        result == _process_info_dict(ran.info, validation.platform)
        got == TTLCache_get(c, validation.canonical_url, clock, DEFAULT_TTL_SECONDS)
    IN  IF ~ran.ok
        THEN [status |-> "raise", value |-> ran.error, cache |-> c]
        ELSE IF ~result.ok
        THEN [status |-> "raise", value |-> result.error, cache |-> c]
        ELSE IF got.ret # None
        THEN [status |-> "return", value |-> got.ret, cache |-> got.store]
        ELSE [status |-> "return", value |-> result.value,
              cache |-> TTLCache_set(c, validation.canonical_url, result.value, clock)]

\* extractor.py:286-289  extract_video_info from the backend's outcome on
extract_video_info_resume(validation, outcome, c, clock) ==
    LET ran == _sync_extract(validation.canonical_url, validation.platform, outcome)
        result == _process_info_dict(ran.info, validation.platform)
    IN  IF ~ran.ok
        THEN [status |-> "raise", value |-> ran.error, cache |-> c]
        ELSE IF ~result.ok
        THEN [status |-> "raise", value |-> result.error, cache |-> c]
        ELSE [status |-> "return", value |-> result.value,
              cache |-> TTLCache_set(c, validation.canonical_url, result.value, clock)]

-----------------------------------------------------------------------------
(* batch.py: batch_get_info, _extract_one and the tasks under the semaphore. *)

_MAX_BATCH == 10
_CONCURRENCY == 3

BatchError(msg) == Exception("BatchError", Str(msg))

List(items) == [type |-> "list", items |-> items]

batch_invalid_ge(u) ==
    IF u.type # "list" \/ u.items = << >>
    THEN BatchError(<<"urls must be a non-empty list">>)
    ELSE IF Len(u.items) >= _MAX_BATCH
    THEN BatchError(<<"Maximum 10 URLs per batch">>)
    ELSE None

\* batch.py:163-166  the BatchError batch_get_info raises for its argument, or None
batch_invalid(u) ==
    IF u.type # "list" \/ u.items = << >>
    THEN BatchError(<<"urls must be a non-empty list">>)
    ELSE IF Len(u.items) > _MAX_BATCH
    THEN BatchError(<<"Maximum 10 URLs per batch">>)
    ELSE None

\* batch.py:117-124  BatchResultItem
BatchResultItem(url, success, data, error) ==
    [url |-> url, success |-> success, data |-> data, error |-> error]

\* batch.py:145-147  the item of an extraction that returned info
SuccessItem(url, info) == BatchResultItem(url, TRUE, to_dict(info), None)

FailureItem_as_success(url, exc) == BatchResultItem(url, TRUE, None, str(exc))

\* batch.py:149-151  the item of an extraction that raised exc
FailureItem(url, exc) == BatchResultItem(url, FALSE, None, str(exc))

Catches_extraction_errors(exc) == exc.exc \in ExtractionErrors

\* batch.py:148  except Exception: every exception the extraction raises is one
Catches(exc) == TRUE

count_all(items) == Len(items)

\* batch.py:172  succeeded = sum(1 for i in items if i.success)
count_succeeded(items) == Cardinality({i \in 1..Len(items) : items[i].success})

\* batch.py:173-178  BatchResult(...)
BatchResult(items) ==
    [total |-> Len(items),
     succeeded |-> count_succeeded(items),
     failed |-> Len(items) - count_succeeded(items),
     results |-> items]

never_locked(value, waiting) == FALSE

\* asyncio.Semaphore.locked(): no permit left, or somebody already waits for one
locked(value, waiting) == value = 0 \/ waiting # << >>

\* A task: pc is "created", "waiting" (in acquire), "granted" (woken with the
\* permit), "thread" (holds the permit, awaits the backend), "done" or "raised";
\* validation, the local of extract_video_info across its await; item, what
\* _extract_one returned.  History: calls, how often extract_video_info was
\* invoked for the position; out, what that invocation returned or raised.
NewTask ==
    [pc |-> "created", validation |-> None, item |-> None, calls |-> 0, out |-> None]

Holding == {i \in 1..Len(tasks) : tasks[i].pc \in {"granted", "thread"}}

gather_successes_first(ts) ==
    SelectSeq([i \in 1..Len(ts) |-> ts[i].item], LAMBDA item : item.success)
        \o SelectSeq([i \in 1..Len(ts) |-> ts[i].item], LAMBDA item : ~item.success)

\* batch.py:170  items = await asyncio.gather(*tasks): the items by position
gather(ts) == [i \in 1..Len(ts) |-> ts[i].item]

\* batch.py:170  gather returns once every task has returned
gather_ready(ts) == \A i \in 1..Len(ts) : ts[i].pc = "done"

\* batch.py:154-169  batch_get_info is called: it raises BatchError, or makes the
\* semaphore and one task per URL and awaits gather
BatchCall(u) ==
    /\ bpc # "gather"
    /\ urls' = u
    /\ waiters' = << >>
    /\ ahead' = FALSE
    /\ IF batch_invalid(u) # None
       THEN /\ bpc' = "raised"
            /\ bres' = batch_invalid(u)
            /\ tasks' = << >>
            /\ sem' = sem
       ELSE /\ bpc' = "gather"
            /\ bres' = None
            /\ tasks' = [i \in 1..Len(u.items) |-> NewTask]
            /\ sem' = _CONCURRENCY
    /\ UNCHANGED <<now, cache, nelapse>>

\* the exit that gives the permit back only when the extraction returned
Leave_keeps_permit_on_failure(i, ran, held, calls) ==
    LET item == IF ran.status = "return"
                THEN SuccessItem(urls.items[i], ran.value)
                ELSE FailureItem(urls.items[i], ran.value)
        mine == [tasks[i] EXCEPT !.pc = "done", !.item = item, !.calls = calls,
                                 !.out = [status |-> ran.status, value |-> ran.value]]
    IN  /\ cache' = ran.cache
        /\ IF ran.status = "return" /\ waiters # << >>
           THEN /\ tasks' = [tasks EXCEPT ![i] = mine, ![Head(waiters)].pc = "granted"]
                /\ waiters' = Tail(waiters)
                /\ sem' = held
           ELSE /\ tasks' = [tasks EXCEPT ![i] = mine]
                /\ waiters' = waiters
                /\ sem' = IF ran.status = "return" THEN held + 1 ELSE held
        /\ ahead' = (ahead \/ \E j \in 1..(i - 1) : tasks[j].pc # "done")
        /\ UNCHANGED <<bpc, bres>>

\* batch.py:142-151  the exit of async with and the return of _extract_one: the
\* permit goes to the first waiter if there is one (Semaphore.release), and an
\* exception that the except clause does not catch ends gather and the call
Leave(i, ran, held, calls) ==
    LET caught == ran.status = "return" \/ Catches(ran.value)
        item == IF ran.status = "return"
                THEN SuccessItem(urls.items[i], ran.value)
                ELSE FailureItem(urls.items[i], ran.value)
        mine == [tasks[i] EXCEPT !.pc = IF caught THEN "done" ELSE "raised",
                                 !.item = IF caught THEN item ELSE None,
                                 !.calls = calls,
                                 !.out = [status |-> ran.status, value |-> ran.value]]
    IN  /\ cache' = ran.cache
        /\ IF waiters # << >>
           THEN /\ tasks' = [tasks EXCEPT ![i] = mine, ![Head(waiters)].pc = "granted"]
                /\ waiters' = Tail(waiters)
                /\ sem' = held
           ELSE /\ tasks' = [tasks EXCEPT ![i] = mine]
                /\ waiters' = waiters
                /\ sem' = held + 1
        /\ ahead' = (ahead \/ \E j \in 1..(i - 1) : tasks[j].pc # "done")
        /\ bpc' = IF caught THEN bpc ELSE "raised"
        /\ bres' = IF caught THEN bres ELSE ran.value

\* batch.py:144  info = await extract_video_info(url), up to its await, by the
\* task of position i holding a permit (held: the semaphore's value meanwhile)
Enter(i, held) ==
    \E ran \in {extract_video_info_start(urls.items[i], cache, now)} :
        IF ran.status = "await"
        THEN /\ tasks' = [tasks EXCEPT ![i].pc = "thread",
                                       ![i].validation = ran.value,
                                       ![i].calls = @ + 1]
             /\ cache' = ran.cache
             /\ sem' = held
             /\ UNCHANGED <<waiters, bpc, bres, ahead>>
        ELSE Leave(i, ran, held, tasks[i].calls + 1)

\* batch.py:142  a task starts (tasks start in the order gather was given them):
\* async with semaphore takes a permit and goes on, or blocks
TaskStart(i) ==
    /\ bpc = "gather"
    /\ tasks[i].pc = "created"
    /\ \A j \in 1..(i - 1) : tasks[j].pc # "created"
    /\ IF locked(sem, waiters)
       THEN /\ tasks' = [tasks EXCEPT ![i].pc = "waiting"]
            /\ waiters' = Append(waiters, i)
            /\ UNCHANGED <<cache, sem, bpc, bres, ahead>>
       ELSE Enter(i, sem - 1)
    /\ UNCHANGED <<now, nelapse, urls>>

\* the event loop runs callbacks in the order they were scheduled: the first
\* steps of the tasks gather made come before the wake-up of any of them
AllStarted == \A j \in 1..Len(tasks) : tasks[j].pc # "created"

\* batch.py:142-144  a task woken with the permit of a task that left goes on
TaskGranted(i) ==
    /\ bpc = "gather"
    /\ i \in 1..Len(tasks)
    /\ tasks[i].pc = "granted"
    /\ AllStarted
    /\ Enter(i, sem)
    /\ UNCHANGED <<now, nelapse, urls>>

\* extractor.py:286-289, batch.py:145-151  the backend run of a task ends with
\* outcome and the task goes on to its return
TaskResume(i, outcome) ==
    /\ bpc = "gather"
    /\ i \in 1..Len(tasks)
    /\ tasks[i].pc = "thread"
    /\ AllStarted
    /\ \E ran \in {extract_video_info_resume(tasks[i].validation, outcome, cache, now)} :
            Leave(i, ran, sem, tasks[i].calls)
    /\ UNCHANGED <<now, nelapse, urls>>

\* batch.py:170-178  gather returns and batch_get_info returns the BatchResult
BatchReturn ==
    /\ bpc = "gather"
    /\ gather_ready(tasks)
    /\ bpc' = "returned"
    /\ bres' = BatchResult(gather(tasks))
    /\ UNCHANGED <<now, cache, nelapse, urls, sem, waiters, tasks, ahead>>

\* the monotonic clock advances by d seconds
Elapse(d) ==
    /\ nelapse < MaxElapse
    /\ nelapse' = nelapse + 1
    /\ now' = now + d
    /\ UNCHANGED cache

-----------------------------------------------------------------------------
(* The caching operations: extract_video_info, extract_transcript,           *)
(* extract_audio_url, transcribe_audio (extractor.py, on extractor._cache)    *)
(* and extract_playlist_info (batch.py, on batch._cache).                     *)

\* str(n) for an int n >= 0, digit by digit
Digit == <<"0", "1", "2", "3", "4", "5", "6", "7", "8", "9">>

RECURSIVE format_int(_)
format_int(n) ==
    IF n < 10 THEN <<Digit[n + 1]>>
    ELSE format_int(n \div 10) \o <<Digit[(n % 10) + 1]>>

\* the result of an operation, a dataclass made of the backend's record
Result(type, id, extra, rev) == [type |-> type, id |-> id, extra |-> extra, rev |-> rev]

\* what an operation does up to its await or its end
Raise(exc, c) == [status |-> "raise", value |-> exc, key |-> None, cache |-> c]
Return(value, c) == [status |-> "return", value |-> value, key |-> None, cache |-> c]
Await(validation, key, c) ==
    [status |-> "await", value |-> validation, key |-> key, cache |-> c]

\* cached = _cache.get(cache_key); if cached is not None: return cached
Lookup_or_await(validation, key, c, clock) ==
    LET got == TTLCache_get(c, key, clock, DEFAULT_TTL_SECONDS)
    IN  IF got.ret # None THEN Return(got.ret, got.store)
        ELSE Await(validation, key, got.store)

\* validation.video_id or ""
video_id_or_empty(validation) ==
    IF validation.video_id = None THEN Str(<< >>) ELSE validation.video_id

\* extractor.py:375  cache_key = f"transcript:{canonical_url}:{lang}"
transcript_key(validation, lang) ==
    <<"transcript:">> \o validation.canonical_url \o <<":", lang>>

\* extractor.py:371-378  extract_transcript up to its await
extract_transcript_start(url, lang, c, clock) ==
    LET validation == validate_url(url)
    IN  IF ~validation.ok THEN Raise(validation.error, c)
        ELSE Lookup_or_await(validation, transcript_key(validation, lang), c, clock)

extract_transcript_resume_stores_failure(validation, lang, key, outcome, c, clock) ==
    LET ran == _sync_extract(validation.canonical_url, validation.platform, outcome)
        result == Result("TranscriptResult", video_id_or_empty(validation), lang, 1)
    IN  IF ~ran.ok THEN Raise(ran.error, TTLCache_set(c, key, ran.error, clock))
        ELSE Return(result, TTLCache_set(c, key, result, clock))

\* extractor.py:338-355, 380-399  _sync_extract_subtitles, _find_best_subtitle and
\* the rest of extract_transcript
extract_transcript_resume(validation, lang, key, outcome, c, clock) ==
    LET ran == _sync_extract(validation.canonical_url, validation.platform, outcome)
        result == Result("TranscriptResult", video_id_or_empty(validation), lang,
                         outcome.rev)
    IN  IF ~ran.ok THEN Raise(ran.error, c)
        ELSE IF ~ran.info.complete
        THEN Raise(Exception("ExtractionError",
                             Str(<<"No subtitles available for this video">>)), c)
        ELSE Return(result, TTLCache_set(c, key, result, clock))

\* extractor.py:541  cache_key = f"audio:{canonical_url}:{quality}"
audio_key(validation, quality) ==
    <<"audio:">> \o validation.canonical_url \o <<":", quality>>

\* extractor.py:533-542  extract_audio_url up to its await
extract_audio_url_start(url, quality, c, clock) ==
    LET validation == validate_url(url)
    IN  IF quality \notin {"best", "smallest"}
        THEN Raise(Exception("ExtractionError",
                             Str(<<"quality must be 'best' or 'smallest'">>)), c)
        ELSE IF ~validation.ok THEN Raise(validation.error, c)
        ELSE Lookup_or_await(validation, audio_key(validation, quality), c, clock)

\* extractor.py:409-424, 544-561  _sync_extract, _select_best_audio and the rest
\* of extract_audio_url
extract_audio_url_resume(validation, quality, key, outcome, c, clock) ==
    LET ran == _sync_extract(validation.canonical_url, validation.platform, outcome)
        result == Result("AudioStreamInfo", video_id_or_empty(validation), quality,
                         outcome.rev)
    IN  IF ~ran.ok THEN Raise(ran.error, c)
        ELSE IF ~ran.info.complete
        THEN Raise(Exception("ExtractionError",
                             Str(<<"No audio-only formats available for this video">>)), c)
        ELSE Return(result, TTLCache_set(c, key, result, clock))

\* extractor.py:506  cache_key = f"transcription:{canonical_url}:{model_name}"
transcription_key(validation, model_name) ==
    <<"transcription:">> \o validation.canonical_url \o <<":", model_name>>

transcribe_audio_start_lookup_first(url, model_name, c, clock) ==
    LET validation == validate_url(url)
        evicted == _evict_expired(c, clock, DEFAULT_TTL_SECONDS)
    IN  IF ~validation.ok THEN Raise(validation.error, evicted)
        ELSE Lookup_or_await(validation, transcription_key(validation, model_name),
                             c, clock)

\* extractor.py:500-509  transcribe_audio up to its await (model_name: what
\* STREAMLENS_WHISPER_MODEL holds in the environment, or "base")
transcribe_audio_start(url, model_name, c, clock) ==
    LET validation == validate_url(url)
    IN  IF ~validation.ok THEN Raise(validation.error, c)
        ELSE Lookup_or_await(validation, transcription_key(validation, model_name),
                             c, clock)

_sync_transcribe_wraps_all(url, platform, outcome) ==
    CASE outcome.kind = "info" -> [ok |-> TRUE, rev |-> outcome.rev]
      [] outcome.kind = "none" ->
            [ok |-> FALSE,
             error |-> Exception("TranscriptionError",
                                 Str(<<"No info returned for ">> \o url))]
      [] OTHER ->
            [ok |-> FALSE, error |-> Exception("TranscriptionError", outcome.msg)]

\* extractor.py:452-495  _sync_transcribe: DownloadError goes to _map_error, every
\* other exception (a missing record too) becomes TranscriptionError
_sync_transcribe(url, platform, outcome) ==
    CASE outcome.kind = "info" -> [ok |-> TRUE, rev |-> outcome.rev]
      [] outcome.kind = "none" ->
            [ok |-> FALSE,
             error |-> Exception("TranscriptionError",
                                 Str(<<"No info returned for ">> \o url))]
      [] outcome.kind = "DownloadError" ->
            [ok |-> FALSE, error |-> _map_error(outcome.msg)]
      [] OTHER ->
            [ok |-> FALSE, error |-> Exception("TranscriptionError", outcome.msg)]

\* extractor.py:511-520  the rest of transcribe_audio
transcribe_audio_resume(validation, model_name, key, outcome, c, clock) ==
    LET ran == _sync_transcribe(validation.canonical_url, validation.platform, outcome)
        result == Result("TranscriptionResult", Str(<<"id">>), model_name, ran.rev)
    IN  IF ~ran.ok THEN Raise(ran.error, c)
        ELSE Return(result, TTLCache_set(c, key, result, clock))

\* batch.py:81  cache_key = f"playlist:{url}:{max_videos}"
playlist_key(url, max_videos) ==
    <<"playlist:">> \o url.text \o <<":">> \o format_int(max_videos)

\* extract_playlist_info with the upper bound left out of the range
extract_playlist_info_start_below_50(url, max_videos, c, clock) ==
    IF max_videos < 1 \/ max_videos >= 50
    THEN Raise(BatchError(<<"max_videos must be an integer between 1 and 50">>), c)
    ELSE Lookup_or_await(None, playlist_key(url, max_videos), c, clock)

\* batch.py:78-84  extract_playlist_info up to its await
extract_playlist_info_start(url, max_videos, c, clock) ==
    IF max_videos < 1 \/ max_videos > 50
    THEN Raise(BatchError(<<"max_videos must be an integer between 1 and 50">>), c)
    ELSE Lookup_or_await(None, playlist_key(url, max_videos), c, clock)

\* batch.py:34-53  _sync_extract_playlist: a missing record and DownloadError
\* become BatchError
_sync_extract_playlist(url, outcome) ==
    CASE outcome.kind = "info" ->
            [ok |-> TRUE, info |-> [rev |-> outcome.rev, complete |-> outcome.complete]]
      [] outcome.kind = "none" ->
            [ok |-> FALSE, error |-> BatchError(<<"No info returned for ">> \o url.text)]
      [] outcome.kind = "DownloadError" ->
            [ok |-> FALSE, error |-> BatchError(outcome.msg.text)]
      [] OTHER ->
            [ok |-> FALSE, error |-> Exception(outcome.kind, outcome.msg)]

\* batch.py:86-109  the rest of extract_playlist_info (int(e["duration"]) raises
\* on a malformed duration)
extract_playlist_info_resume(url, max_videos, key, outcome, c, clock) ==
    LET ran == _sync_extract_playlist(url, outcome)
        result == Result("PlaylistInfo", Str(<<"id">>), max_videos, outcome.rev)
    IN  IF ~ran.ok THEN Raise(ran.error, c)
        ELSE IF ~ran.info.complete
        THEN Raise(Exception("ValueError", Str(<<"invalid literal for int()">>)), c)
        ELSE Return(result, TTLCache_set(c, key, result, clock))

\* the callers of the operations
Callers == {"a1", "a2"}

\* the languages, qualities, Whisper models and max_videos the callers pass
Langs == {"en", "zh"}
Qualities == {"best", "smallest", "worst"}
Models == {"base"}
MaxVideos == {20, 51}

\* the calls: the operation, its URL and its other argument
OpCalls(urlset) ==
    [op : {"info"}, url : urlset, param : {None}]
        \cup [op : {"transcript"}, url : urlset, param : Langs]
        \cup [op : {"audio"}, url : urlset, param : Qualities]
        \cup [op : {"transcription"}, url : urlset, param : Models]
        \cup [op : {"playlist"}, url : urlset, param : MaxVideos]

\* a caller: pc is "idle", "await" (the backend runs for it) or "done"; validation
\* and key are the operation's locals across its await; status and ret, how it
\* ended.  History: t, the time the call began; prior, the results stored before
\* it began; backend, how often it invoked the backend; outcome, what its backend
\* run did.
IdleCall ==
    [pc |-> "idle", op |-> "", url |-> None, param |-> None, validation |-> None,
     key |-> None, t |-> 0, prior |-> {}, backend |-> 0, outcome |-> None,
     status |-> "", ret |-> None]

\* extract_video_info up to its await, as the other operations are given
video_info_start(url, c, clock) ==
    LET ran == extract_video_info_start(url, c, clock)
    IN  IF ran.status = "await"
        THEN Await(ran.value, ran.value.canonical_url, ran.cache)
        ELSE [status |-> ran.status, value |-> ran.value, key |-> None,
              cache |-> ran.cache]

\* the operation of call k up to its await
op_start(k, clock) ==
    CASE k.op = "info" -> video_info_start(k.url, cache, clock)
      [] k.op = "transcript" -> extract_transcript_start(k.url, k.param, cache, clock)
      [] k.op = "audio" -> extract_audio_url_start(k.url, k.param, cache, clock)
      [] k.op = "transcription" -> transcribe_audio_start(k.url, k.param, cache, clock)
      [] k.op = "playlist" -> extract_playlist_info_start(k.url, k.param, pcache, clock)

\* the operation of caller's call from the outcome of its backend run on
op_resume(k, outcome, clock) ==
    CASE k.op = "info" ->
            extract_video_info_resume(k.validation, outcome, cache, clock)
      [] k.op = "transcript" ->
            extract_transcript_resume(k.validation, k.param, k.key, outcome, cache, clock)
      [] k.op = "audio" ->
            extract_audio_url_resume(k.validation, k.param, k.key, outcome, cache, clock)
      [] k.op = "transcription" ->
            transcribe_audio_resume(k.validation, k.param, k.key, outcome, cache, clock)
      [] k.op = "playlist" ->
            extract_playlist_info_resume(k.url, k.param, k.key, outcome, pcache, clock)

\* the operation's cache after the step
SetCache(op, c) ==
    IF op = "playlist" THEN pcache' = c /\ cache' = cache
    ELSE cache' = c /\ pcache' = pcache

\* a caller calls an operation: it raises, returns the cached result, or invokes
\* the backend in a thread and awaits it
OpCall(a, k) ==
    /\ opcalls[a].pc # "await"
    /\ ncalls < MaxCalls
    /\ ncalls' = ncalls + 1
    /\ \E ran \in {op_start(k, now)} :
        /\ opcalls' = [opcalls EXCEPT ![a] =
                [pc |-> IF ran.status = "await" THEN "await" ELSE "done",
                 op |-> k.op, url |-> k.url, param |-> k.param,
                 validation |-> IF ran.status = "await" THEN ran.value ELSE None,
                 key |-> ran.key, t |-> now, prior |-> lastStore,
                 backend |-> IF ran.status = "await" THEN 1 ELSE 0,
                 outcome |-> None,
                 status |-> ran.status,
                 ret |-> IF ran.status = "await" THEN None ELSE ran.value]]
        /\ SetCache(k.op, ran.cache)
    /\ UNCHANGED <<now, nelapse, lastStore>>

\* the number of the latest of the stored results S (0 when there is none)
MaxSeq(S) ==
    IF S = {} THEN 0
    ELSE CHOOSE n \in {e.seq : e \in S} : \A e \in S : e.seq <= n

\* the backend run of a caller ends with outcome; the operation stores its result
\* and returns it, or raises
OpResume(a, outcome) ==
    /\ opcalls[a].pc = "await"
    /\ \E ran \in {op_resume(opcalls[a], outcome, now)} :
        /\ opcalls' = [opcalls EXCEPT ![a].pc = "done", ![a].status = ran.status,
                                  ![a].ret = ran.value, ![a].outcome = outcome]
        /\ SetCache(opcalls[a].op, ran.cache)
        /\ lastStore' =
                IF ran.status = "return"
                THEN {e \in lastStore : ~(/\ e.op = opcalls[a].op
                                          /\ e.param = opcalls[a].param
                                          /\ e.url = opcalls[a].url)}
                        \cup {[op |-> opcalls[a].op, url |-> opcalls[a].url,
                               param |-> opcalls[a].param, value |-> ran.value,
                               at |-> now, seq |-> MaxSeq(lastStore) + 1,
                               backend |-> opcalls[a].backend]}
                ELSE lastStore
    /\ UNCHANGED <<now, nelapse, ncalls>>

-----------------------------------------------------------------------------
(* video_mcp_server.py: the tools, each an operation within try/except.      *)

\* an exception of class is an instance of base.  InvalidURLError in the records
\* of this module is the class platforms.py defines; "validators.InvalidURLError"
\* is the class of the same name that validators.py defines, a class apart.
isinstance(class, base) ==
    \/ base = "Exception"
    \/ class = base
    \/ (base = "ExtractionError" /\ class \in ExtractionErrors)

\* video_mcp_server.py:52-61, 106-115, 157-166  the except clauses of
\* get_video_info, get_transcript and get_audio_url, in order (line 22:
\* from validators import InvalidURLError)
UrlToolHandlers ==
    << <<"validators.InvalidURLError", "InvalidURL">>,
       <<"GeoRestrictionError", "GeoRestriction">>,
       <<"VideoUnavailableError", "VideoUnavailable">>,
       <<"ExtractionError", "ExtractionError">>,
       <<"Exception", "UnexpectedError">> >>

\* video_mcp_server.py:182-185, 204-207  the except clauses of get_playlist_info
\* and batch_get_info
BatchToolHandlers ==
    << <<"BatchError", "BatchError">>, <<"Exception", "UnexpectedError">> >>

\* the first except clause, from clause h on, that catches exc
RECURSIVE except(_, _, _)
except(handlers, exc, h) ==
    IF h > Len(handlers) THEN [raised |-> exc]
    ELSE IF isinstance(exc.exc, handlers[h][1])
    THEN [error |-> handlers[h][2], message |-> str(exc)]
    ELSE except(handlers, exc, h + 1)

\* the response of the tool of operation op when the operation ended with status
\* and value: the result, or the error envelope
tool_response(op, status, value) ==
    IF status = "return" THEN [result |-> value]
    ELSE except(IF op = "playlist" THEN BatchToolHandlers ELSE UrlToolHandlers,
                value, 1)

-----------------------------------------------------------------------------
(* The specifications. *)

\* URLs given to the service: two forms of one YouTube video, a TikTok short
\* link and an unsupported URL
WatchUrl == Str(<<"https://", "www.", "youtube.com", "/watch?", "v=", "dQw4w9WgXcQ">>)
ShortUrl == Str(<<" ", "youtu.be", "/", "dQw4w9WgXcQ">>)
TikTokUrl == Str(<<"https://", "vm.", "tiktok.com", "/", "ZMabc">>)
BadUrl == Str(<<"https://", "example.com">>)
\* the TikTok short link with text around it: the patterns are searched for, not
\* matched from the start, and the canonical URL of a TikTok URL is the URL given
PrefixedUrl == Str(<<"audio:", "https://", "vm.", "tiktok.com", "/", "ZMabc", ":", "best">>)

BatchUrls == {ShortUrl, BadUrl}

\* the sequences over set of length n
SeqsOfLen(set, n) == [1..n -> set]

\* a list of n URLs: _CONCURRENCY + 1 supported ones, then unsupported ones
LongList(n) == [i \in 1..n |-> IF i <= _CONCURRENCY + 1 THEN WatchUrl ELSE BadUrl]

BatchInputs ==
    {List(l) : l \in UNION {SeqsOfLen(BatchUrls, n) : n \in 0..MaxLen}}
        \cup {List(LongList(_MAX_BATCH)), List(LongList(_MAX_BATCH + 1))}
        \cup {Str(<<"not a list">>)}

\* the clock advances by the time to live less a second, or by the time to live
Delays == {DEFAULT_TTL_SECONDS - 1, DEFAULT_TTL_SECONDS}

InitCacheVars ==
    /\ store = << >>
    /\ lock = Free
    /\ threads = [t \in Threads |-> IdleThread]
    /\ lastSet = [k \in Keys |-> None]
    /\ prevSet = [k \in Keys |-> None]
    /\ gone = [k \in Keys |-> FALSE]
    /\ serial = << >>
    /\ nops = 0

InitService ==
    /\ cache = << >>
    /\ nelapse = 0

InitBatch ==
    /\ bpc = "idle"
    /\ urls = List(<< >>)
    /\ sem = 0
    /\ waiters = << >>
    /\ tasks = << >>
    /\ bres = None
    /\ ahead = FALSE

InitOps ==
    /\ pcache = << >>
    /\ opcalls = [a \in Callers |-> IdleCall]
    /\ lastStore = {}
    /\ ncalls = 0

InitFn ==
    /\ farg = None
    /\ fout = None
    /\ fagain = None
    /\ fother = None

InitCache ==
    /\ now = 0
    /\ ttl \in TtlChoices
    /\ InitCacheVars
    /\ InitService
    /\ InitBatch
    /\ InitOps
    /\ InitFn

CacheStep ==
    \/ \E t \in Threads, k \in Keys : Begin(t, "get", k, None)
    \/ \E t \in Threads, k \in Keys, v \in Values : Begin(t, "set", k, v)
    \/ \E t \in Threads : Begin(t, "len", "", None)
    \/ \E t \in Threads : EvictNow(t)
    \/ \E t \in Threads : EvictScan(t)
    \/ \E t \in Threads : EvictDel(t)
    \/ \E t \in Threads : GetBody(t)
    \/ \E t \in Threads : SetBody(t)
    \/ \E t \in Threads : LenBody(t)
    \/ Tick

NextCache == CacheStep /\ UNCHANGED <<svcVars, batchVars, opsVars, fnVars>>

SpecCache == InitCache /\ [][NextCache]_vars

Init ==
    /\ now = 0
    /\ ttl = DEFAULT_TTL_SECONDS
    /\ InitCacheVars
    /\ InitService
    /\ InitBatch
    /\ InitOps
    /\ InitFn

BatchStep ==
    \/ \E u \in BatchInputs : BatchCall(u)
    \/ \E i \in 1..Len(tasks) : TaskStart(i)
    \/ \E i \in 1..Len(tasks) : TaskGranted(i)
    \/ \E i \in 1..Len(tasks), outcome \in BatchOutcomes(Len(tasks)) : TaskResume(i, outcome)
    \/ BatchReturn
    \/ \E d \in Delays : Elapse(d) /\ UNCHANGED batchVars

Next == BatchStep /\ UNCHANGED <<cacheVars, opsVars, fnVars>>

Spec == Init /\ [][Next]_vars

\* a step of the call in progress: the first step of a task, the wake-up of a
\* task given a permit, the end of the backend run of a task, the return of gather
BatchProgress ==
    /\ \/ \E i \in 1..Len(tasks) : TaskStart(i)
       \/ \E i \in 1..Len(tasks) : TaskGranted(i)
       \/ \E i \in 1..Len(tasks), outcome \in BatchOutcomes(Len(tasks)) :
                TaskResume(i, outcome)
       \/ BatchReturn
    /\ UNCHANGED <<cacheVars, opsVars, fnVars>>

\* The event loop goes on running the callbacks that are ready, and every
\* extraction started in a thread returns or raises: while a step of the call
\* is possible, one is taken.
BatchFairness == WF_vars(BatchProgress)

\* the lists of the calls followed to their return: more URLs than permits, so
\* that some task waits for a permit
LiveInputs == {List(LongList(n)) : n \in {_CONCURRENCY + 1, _CONCURRENCY + 2}}

LiveStep ==
    \/ \E u \in LiveInputs : BatchCall(u)
    \/ \E i \in 1..Len(tasks) : TaskStart(i)
    \/ \E i \in 1..Len(tasks) : TaskGranted(i)
    \/ \E i \in 1..Len(tasks), outcome \in BatchOutcomes(Len(tasks)) : TaskResume(i, outcome)
    \/ BatchReturn

NextLive == LiveStep /\ UNCHANGED <<cacheVars, opsVars, fnVars>>

SpecLive == Init /\ [][NextLive]_vars /\ BatchFairness

\* the URLs the callers of the operations pass
OpUrls == {WatchUrl, ShortUrl, BadUrl, TikTokUrl, PrefixedUrl}

\* the outcomes drawn for the backend runs of the operations: every failure, two
\* records with what the operations read and one without
OpOutcomes ==
    {o \in BackendOutcomes : (o.kind = "info" /\ ~o.complete) => o.rev = 1}

OpsStep ==
    \/ \E a \in Callers, k \in OpCalls(OpUrls) : OpCall(a, k)
    \/ \E a \in Callers, outcome \in OpOutcomes : OpResume(a, outcome)
    \/ \E d \in Delays : Elapse(d) /\ UNCHANGED opsVars

NextOps == OpsStep /\ UNCHANGED <<cacheVars, batchVars, fnVars>>

SpecOps == Init /\ [][NextOps]_vars

\* The inputs of detect_platform: every supported form of URL with and without
\* scheme, www. and query parameters, bare and within whitespace; URLs that
\* match no rule; the empty and the blank string; a value that is no str.
Schemes == {<< >>, <<"https://">>, <<"http://">>}

Wwws == {<< >>, <<"www.">>}

Users == {<<"user1">>, <<"user1", "m.", "ZMabc">>}

YouTubeForms ==
    {s \o w \o <<"youtube.com", "/watch?">> \o q \o <<"v=", id>> \o r :
        s \in Schemes, w \in Wwws, id \in Id11,
        q \in {<< >>, <<"t=10s", "&">>}, r \in {<< >>, <<"&", "t=10s">>}}
    \cup {s \o <<"youtu.be", "/", id>> : s \in Schemes, id \in Id11}
    \cup {s \o w \o <<"youtube.com", p, id>> :
            s \in Schemes, w \in Wwws, id \in Id11, p \in {"/shorts/", "/embed/"}}
    \cup {s \o <<"m.", "youtube.com", "/watch?", "v=", id>> : s \in Schemes, id \in Id11}

TikTokForms ==
    {s \o w \o <<"tiktok.com", "/@">> \o u \o <<"/video/", id>> \o r :
        s \in Schemes, w \in Wwws, u \in Users, id \in Digits,
        r \in {<< >>, <<"?", "t=10s">>}}
    \cup {s \o <<"vm.", "tiktok.com", "/", id>> : s \in Schemes, id \in {"ZMabc", "42"}}

DouyinForms ==
    {s \o w \o <<"douyin.com", "/video/", id>> :
        s \in Schemes, w \in Wwws, id \in Digits}
    \cup {s \o w \o <<"douyin.com", "/user/", "user1", "?">> \o q \o <<"modal_id=", id>> :
            s \in Schemes, w \in Wwws, id \in Digits, q \in {<< >>, <<"t=10s", "&">>}}
    \cup {s \o <<"v.", "douyin.com", "/", id>> : s \in Schemes, id \in {"ZMabc", "42"}}

UnsupportedForms ==
    {<<"https://", "example.com">>,
     <<"https://", "www.", "youtube.com", "/watch?", "v=", "42">>,
     <<"https://", "www.", "youtube.com", "/", "user1">>,
     <<"tiktok.com", "/@", "/video/", "42">>,
     <<"https://", "vm.", "tiktok.com", "/">>,
     <<"douyin.com", "/user/", "user1", "modal_id=", "42">>,
     <<"user1">>}

\* a URL of one platform inside the text of another's, and inside other text
MixedForms ==
    {<<"https://", "www.", "tiktok.com", "/@", "user1", "/video/", "42", "?", "youtu.be",
       "/", "dQw4w9WgXcQ">>,
     <<"https://", "v.", "douyin.com", "/", "ZMabc", "?", "www.", "douyin.com", "/video/",
       "42">>,
     PrefixedUrl.text}

Padded(forms) ==
    forms \cup {<<" ">> \o f : f \in forms} \cup {<<" ">> \o f \o <<" ", " ">> : f \in forms}

ResolverInputs ==
    {Str(f) : f \in Padded(YouTubeForms \cup TikTokForms \cup DouyinForms
                              \cup UnsupportedForms \cup MixedForms)}
        \cup {Str(<< >>), Str(<<" ">>), Str(<<" ", " ">>), NotStr}

\* the second URLs: every supported form, bare
OtherInputs ==
    {Str(f) : f \in YouTubeForms \cup TikTokForms \cup DouyinForms \cup MixedForms}

\* The messages given to _map_error: up to MaxWords of the words below, which
\* hold the three substrings in lower, upper and mixed case, whole and broken.
MsgWords ==
    {<<"g", "e", "o">>, <<"G", "E", "O">>, <<"G", "e", "o">>, <<"g", "e">>, <<"o">>,
     <<"p", "r", "i", "v", "a", "t", "e">>, <<"P", "R", "I", "V", "A", "T", "E">>,
     <<"u", "n", "a", "v", "a", "i", "l", "a", "b", "l", "e">>,
     <<"U", "n", "a", "v", "a", "i", "l", "a", "b", "l", "e">>,
     <<"p", "r", "i", "v", "a", "t">>, <<" ">>, <<"ERROR: ">>}

RECURSIVE MsgsOfWords(_)
MsgsOfWords(n) ==
    IF n = 0 THEN {<< >>}
    ELSE LET shorter == MsgsOfWords(n - 1)
         IN  shorter \cup {m \o w : m \in shorter, w \in MsgWords}

MapErrorInputs == {Str(m) : m \in MsgsOfWords(MaxWords)}

\* The environments of _sync_extract: each of the two variables unset, blank or
\* holding a host; its platforms; the outcomes of its backend run.
HostValues == {<< >>, <<" ">>, <<"user@mac.local">>}

SshEnvs == [global : HostValues, platform : HostValues]

SyncExtractInputs ==
    [env : SshEnvs, platform : {YOUTUBE, TIKTOK, DOUYIN}, outcome : BackendOutcomes]

FnInputs ==
    [fn : {"detect_platform"}, x : ResolverInputs]
        \cup [fn : {"_map_error"}, x : MapErrorInputs]
        \cup [fn : {"_sync_extract"}, x : SyncExtractInputs]

InitFnInputs ==
    /\ now = 0
    /\ ttl = DEFAULT_TTL_SECONDS
    /\ InitCacheVars
    /\ InitService
    /\ InitBatch
    /\ InitOps
    /\ farg \in FnInputs
    /\ fout = None
    /\ fagain = None
    /\ fother = None

\* _map_error(farg)
MapError ==
    /\ farg.fn = "_map_error"
    /\ fout = None
    /\ fout' = _map_error(farg.x)
    /\ UNCHANGED <<farg, fagain, fother>>

\* _sync_extract(url, platform) in the environment and with the backend outcome
\* of farg
SyncExtract ==
    /\ farg.fn = "_sync_extract"
    /\ fout = None
    /\ fout' = [invoked |-> _sync_extract_invokes(farg.x.env, farg.x.platform),
                ran |-> _sync_extract(WatchUrl.text, farg.x.platform, farg.x.outcome)]
    /\ UNCHANGED <<farg, fagain, fother>>

\* detect_platform(farg)
Detect ==
    /\ farg.fn = "detect_platform"
    /\ fout = None
    /\ fout' = detect_platform(farg.x)
    /\ UNCHANGED <<farg, fagain, fother>>

\* detect_platform(farg) a second time, and detect_platform of the canonical URL
\* the first call returned
DetectAgain ==
    /\ farg.fn = "detect_platform"
    /\ fout # None
    /\ fout.ok
    /\ fagain = None
    /\ fother = None
    /\ fagain' = [same |-> detect_platform(farg.x),
                  canonical |-> detect_platform(Str(fout.canonical_url))]
    /\ UNCHANGED <<farg, fout, fother>>

\* detect_platform(u) for a second URL u
DetectOther(u) ==
    /\ farg.fn = "detect_platform"
    /\ fout # None
    /\ fout.ok
    /\ fagain = None
    /\ fother = None
    /\ fother' = [url |-> u, out |-> detect_platform(u)]
    /\ UNCHANGED <<farg, fout, fagain>>

FnStep ==
    \/ MapError
    \/ SyncExtract
    \/ Detect
    \/ DetectAgain
    \/ \E u \in OtherInputs : DetectOther(u)

NextFn == FnStep /\ UNCHANGED <<now, cacheVars, svcVars, batchVars, opsVars>>

SpecFn == InitFnInputs /\ [][NextFn]_vars

-----------------------------------------------------------------------------
(* extractor.py: the selection of formats.  A raw format is a dict of the   *)
(* backend, here a function from the keys it has to their values; a key     *)
(* that holds None is a key the dict does not have.  Numbers are positive   *)
(* integers.                                                                *)

\* the longest list of formats the backend returns
MaxFormats == 3

\* fmt.get(key) is not None
has(fmt, key) == key \in DOMAIN fmt

\* fmt.get(key)
get(fmt, key) == IF key \in DOMAIN fmt THEN fmt[key] ELSE None

\* fmt.get(key) is a str other than ""
truthy(fmt, key) == has(fmt, key) /\ fmt[key] # ""

\* extractor.py:175  float("inf"): above every size and bitrate
inf == 1000000

\* extractor.py:150-152
_has_video(fmt) == has(fmt, "vcodec") /\ fmt.vcodec # "none"

\* extractor.py:155-157
_has_audio(fmt) == has(fmt, "acodec") /\ fmt.acodec # "none"

\* f.get(a) or f.get(b) or default
get_or(fmt, a, b, default) ==
    IF has(fmt, a) /\ fmt[a] # 0 THEN fmt[a]
    ELSE IF has(fmt, b) /\ fmt[b] # 0 THEN fmt[b]
    ELSE default

\* _build_format_entry that converts a format without id or extension
_build_format_entry_partial(fmt) ==
    [format_id |-> IF has(fmt, "format_id") THEN fmt.format_id ELSE "",
     ext |-> IF has(fmt, "ext") THEN fmt.ext ELSE "",
     resolution |-> get(fmt, "resolution"),
     height |-> get(fmt, "height"),
     width |-> get(fmt, "width"),
     fps |-> get(fmt, "fps"),
     vcodec |-> get(fmt, "vcodec"),
     acodec |-> get(fmt, "acodec"),
     filesize |-> get(fmt, "filesize"),
     tbr |-> get(fmt, "tbr"),
     url |-> get(fmt, "url"),
     format_note |-> get(fmt, "format_note")]

\* extractor.py:123-147  _build_format_entry: the VideoFormat, or None
_build_format_entry(fmt) ==
    IF ~(has(fmt, "format_id") /\ fmt.format_id # "")
          \/ ~(has(fmt, "ext") /\ fmt.ext # "")
    THEN None
    ELSE [format_id |-> fmt.format_id,
          ext |-> fmt.ext,
          resolution |->
              IF has(fmt, "resolution") /\ fmt.resolution # ""
              THEN fmt.resolution
              ELSE IF has(fmt, "width") /\ fmt.width # 0
                        /\ has(fmt, "height") /\ fmt.height # 0
              THEN <<fmt.width, "x", fmt.height>>
              ELSE None,
          height |-> get(fmt, "height"),
          width |-> get(fmt, "width"),
          fps |-> get(fmt, "fps"),
          vcodec |-> get(fmt, "vcodec"),
          acodec |-> get(fmt, "acodec"),
          filesize |-> get(fmt, "filesize"),
          tbr |-> get(fmt, "tbr"),
          url |-> get(fmt, "url"),
          format_note |-> get(fmt, "format_note")]

\* f.get("height") or 0
height_or_0(fmt) == IF has(fmt, "height") THEN fmt.height ELSE 0

\* the loop for best in which a later format of the same height replaces it
RECURSIVE best_loop_last_wins(_, _, _)
best_loop_last_wins(video_fmts, i, best) ==
    IF i > Len(video_fmts) THEN best
    ELSE LET f == video_fmts[i]
             h == height_or_0(f)
         IN  best_loop_last_wins(video_fmts, i + 1,
                 IF best = None \/ h >= height_or_0(best) THEN f ELSE best)

\* extractor.py:167-171  the loop for best, from position i on
RECURSIVE best_loop(_, _, _)
best_loop(video_fmts, i, best) ==
    IF i > Len(video_fmts) THEN best
    ELSE LET f == video_fmts[i]
             h == height_or_0(f)
         IN  best_loop(video_fmts, i + 1,
                 IF best = None \/ h > height_or_0(best) THEN f ELSE best)

\* extractor.py:173-182  the loop for smallest, from position i on
RECURSIVE smallest_loop(_, _, _)
smallest_loop(video_fmts, i, smallest) ==
    IF i > Len(video_fmts) THEN smallest
    ELSE LET f == video_fmts[i]
             f_size == get_or(f, "filesize", "tbr", inf)
             s_size == IF smallest # None
                       THEN get_or(smallest, "filesize", "tbr", inf)
                       ELSE inf
         IN  smallest_loop(video_fmts, i + 1, IF f_size < s_size THEN f ELSE smallest)

\* extractor.py:184-193  the loop for best_audio, from position i on
RECURSIVE best_audio_loop(_, _, _)
best_audio_loop(audio_only_fmts, i, best_audio) ==
    IF i > Len(audio_only_fmts) THEN best_audio
    ELSE LET f == audio_only_fmts[i]
             abr == get_or(f, "abr", "tbr", 0)
             best_abr == IF best_audio # None
                         THEN get_or(best_audio, "abr", "tbr", 0)
                         ELSE 0
         IN  best_audio_loop(audio_only_fmts, i + 1,
                             IF abr > best_abr THEN f ELSE best_audio)

\* extractor.py:164-165
video_fmts_of(formats) == SelectSeq(formats, _has_video)

audio_only_fmts_of(formats) ==
    SelectSeq(formats, LAMBDA f : _has_audio(f) /\ ~_has_video(f))

\* extractor.py:195-199  the entry of a selected format, None when none is selected
entry_of(selected) == IF selected # None THEN _build_format_entry(selected) ELSE None

\* extractor.py:160-199  _select_formats: (best_quality_video, smallest_video,
\* audio_only)
_select_formats(formats) ==
    <<entry_of(best_loop(video_fmts_of(formats), 1, None)),
      entry_of(smallest_loop(video_fmts_of(formats), 1, None)),
      entry_of(best_audio_loop(audio_only_fmts_of(formats), 1, None))>>

\* extractor.py:406
_EXT_PREFERENCE == <<"m4a", "opus", "mp3", "ogg">>

\* _EXT_PREFERENCE.index(ext) if ext in _EXT_PREFERENCE else len(_EXT_PREFERENCE)
ext_rank(ext) ==
    IF \E i \in DOMAIN _EXT_PREFERENCE : _EXT_PREFERENCE[i] = ext
    THEN (CHOOSE i \in DOMAIN _EXT_PREFERENCE : _EXT_PREFERENCE[i] = ext) - 1
    ELSE Len(_EXT_PREFERENCE)

\* the sort key of "best" without the rank of the extension
_sort_key_no_rank(f, quality) ==
    IF quality = "smallest"
    THEN <<get_or(f, "filesize", "tbr", inf)>>
    ELSE <<0 - get_or(f, "abr", "tbr", 0), 0>>

\* extractor.py:430, 434-438  the key audio_fmts is sorted by
_sort_key(f, quality) ==
    IF quality = "smallest"
    THEN <<get_or(f, "filesize", "tbr", inf)>>
    ELSE <<0 - get_or(f, "abr", "tbr", 0),
           ext_rank(IF has(f, "ext") THEN f.ext ELSE "")>>

\* a < b for two tuples of numbers of one length, as Python orders tuples
RECURSIVE tuple_less(_, _)
tuple_less(a, b) ==
    IF Len(a) = 0 THEN FALSE
    ELSE Head(a) < Head(b) \/ (Head(a) = Head(b) /\ tuple_less(Tail(a), Tail(b)))

\* f put into a sorted list behind every format whose key is not above f's
RECURSIVE sort_insert(_, _, _)
sort_insert(sorted, f, quality) ==
    IF Len(sorted) = 0 THEN <<f>>
    ELSE IF tuple_less(_sort_key(f, quality), _sort_key(Head(sorted), quality))
    THEN <<f>> \o sorted
    ELSE <<Head(sorted)>> \o sort_insert(Tail(sorted), f, quality)

\* list.sort(key=...): ascending by key, formats of equal key in their order
RECURSIVE list_sort(_, _)
list_sort(fmts, quality) ==
    IF Len(fmts) = 0 THEN << >>
    ELSE sort_insert(list_sort(SubSeq(fmts, 1, Len(fmts) - 1), quality),
                     fmts[Len(fmts)], quality)

\* audio_fmts that keeps the formats with video
audio_fmts_with_video(formats) ==
    SelectSeq(formats, LAMBDA f : _has_audio(f) /\ truthy(f, "url"))

\* extractor.py:422-425
audio_fmts_of(formats) ==
    SelectSeq(formats, LAMBDA f : _has_audio(f) /\ ~_has_video(f) /\ truthy(f, "url"))

\* extractor.py:409-441  _select_best_audio: the format, or the error raised
_select_best_audio(formats, quality) ==
    LET audio_fmts == audio_fmts_of(formats)
    IN  IF Len(audio_fmts) = 0
        THEN [ok |-> FALSE,
              error |-> Exception("ExtractionError",
                                  Str(<<"No audio-only formats available for this video">>))]
        ELSE [ok |-> TRUE, format |-> Head(list_sort(audio_fmts, quality))]

\* models.py:99-109
AudioStreamInfo(video_id, title, best) ==
    [type |-> "AudioStreamInfo",
     video_id |-> video_id,
     title |-> title,
     url |-> best.url,
     format_id |-> IF has(best, "format_id") THEN best.format_id ELSE "",
     ext |-> IF has(best, "ext") THEN best.ext ELSE "",
     acodec |-> get(best, "acodec"),
     abr |-> get(best, "abr"),
     filesize |-> get(best, "filesize")]

\* extractor.py:547-561  extract_audio_url once the backend has returned info
\* with the list formats
extract_audio_url_select(validation, quality, key, formats, c, clock) ==
    LET best == _select_best_audio(formats, quality)
        result == AudioStreamInfo(video_id_or_empty(validation), "Test Video",
                                  best.format)
    IN  IF ~best.ok THEN Raise(best.error, c)
        ELSE Return(result, TTLCache_set(c, key, result, clock))

\* The formats of the backend: with video and audio, video only, audio only
\* (vcodec "none" or missing) and neither; with and without height, filesize,
\* bitrates, id, extension and URL; with equal heights, sizes and bitrates.
VideoDicts ==
    {[format_id |-> "v1", ext |-> "mp4", vcodec |-> "h264", acodec |-> "aac",
      height |-> 720, width |-> 1280, filesize |-> 20, url |-> "u-v1"],
     [format_id |-> "v2", ext |-> "mp4", vcodec |-> "h264", acodec |-> "none",
      height |-> 1080, tbr |-> 8, url |-> "u-v2"],
     [format_id |-> "v3", ext |-> "webm", vcodec |-> "vp9",
      height |-> 1080, filesize |-> 10, tbr |-> 5, resolution |-> "1920x1080"],
     [format_id |-> "v4", ext |-> "mp4", vcodec |-> "h264"],
     [format_id |-> "v5", ext |-> "mp4", vcodec |-> "h264", acodec |-> "aac",
      height |-> 720, abr |-> 128, url |-> "u-v5"],
     [ext |-> "mp4", vcodec |-> "h264", height |-> 1080, filesize |-> 10],
     [format_id |-> "v7", vcodec |-> "h264", height |-> 720, tbr |-> 5],
     [format_id |-> "v8", ext |-> "mp4", vcodec |-> "h264", height |-> 720,
      filesize |-> 20, tbr |-> 5]}

AudioDicts ==
    {[format_id |-> "a1", ext |-> "m4a", acodec |-> "aac", vcodec |-> "none",
      abr |-> 128, filesize |-> 20, url |-> "u-a1"],
     [format_id |-> "a2", ext |-> "opus", acodec |-> "opus",
      abr |-> 128, filesize |-> 10, url |-> "u-a2"],
     [format_id |-> "a3", ext |-> "ogg", acodec |-> "vorbis", vcodec |-> "none",
      tbr |-> 128, url |-> "u-a3"],
     [format_id |-> "a4", ext |-> "webm", acodec |-> "opus", vcodec |-> "none",
      url |-> "u-a4"],
     [format_id |-> "a5", ext |-> "mp3", acodec |-> "mp3", vcodec |-> "none",
      abr |-> 64, tbr |-> 128, filesize |-> 5],
     [format_id |-> "a6", ext |-> "mp3", acodec |-> "mp3", vcodec |-> "none",
      abr |-> 64, tbr |-> 5, url |-> "u-a6"],
     [ext |-> "m4a", acodec |-> "aac", vcodec |-> "none", abr |-> 160,
      filesize |-> 10, url |-> "u-a7"],
     [format_id |-> "a8", acodec |-> "aac", vcodec |-> "none", abr |-> 128,
      url |-> "u-a8"],
     [format_id |-> "a9", ext |-> "m4a", acodec |-> "aac", vcodec |-> "none",
      url |-> "u-a9"]}

OtherDicts == {[format_id |-> "n1", ext |-> "mhtml", vcodec |-> "none", acodec |-> "none"]}

FormatDicts == VideoDicts \cup AudioDicts \cup OtherDicts

\* info.get("formats") or []
FormatLists == UNION {[1..n -> FormatDicts] : n \in 0..MaxFormats}

SelInputs ==
    [fn : {"_select_formats"}, x : FormatLists]
        \cup [fn : {"extract_audio_url"},
              x : [formats : FormatLists, quality : {"best", "smallest"}]]

InitSel ==
    /\ now = 0
    /\ ttl = DEFAULT_TTL_SECONDS
    /\ InitCacheVars
    /\ InitService
    /\ InitBatch
    /\ InitOps
    /\ farg \in SelInputs
    /\ fout = None
    /\ fagain = None
    /\ fother = None

\* _select_formats(farg)
SelectFormats ==
    /\ farg.fn = "_select_formats"
    /\ fout = None
    /\ fout' = _select_formats(farg.x)
    /\ UNCHANGED <<farg, fagain, fother, cache>>

\* _select_formats(farg) once more
SelectFormatsAgain ==
    /\ farg.fn = "_select_formats"
    /\ fout # None
    /\ fagain = None
    /\ fagain' = _select_formats(farg.x)
    /\ UNCHANGED <<farg, fout, fother, cache>>

\* extract_audio_url on the watch URL, from the return of the backend with the
\* formats of farg on
AudioUrl ==
    /\ farg.fn = "extract_audio_url"
    /\ fout = None
    /\ LET validation == validate_url(WatchUrl)
           key == audio_key(validation, farg.x.quality)
       IN  \E r \in {extract_audio_url_select(validation, farg.x.quality, key,
                                              farg.x.formats, cache, now)} :
              /\ fout' = [status |-> r.status, value |-> r.value, key |-> key]
              /\ cache' = r.cache
    /\ UNCHANGED <<farg, fagain, fother>>

SelStep ==
    \/ SelectFormats
    \/ SelectFormatsAgain
    \/ AudioUrl

NextSel ==
    SelStep /\ UNCHANGED <<now, cacheVars, nelapse, batchVars, opsVars>>

SpecSel == InitSel /\ [][NextSel]_vars

-----------------------------------------------------------------------------
(* transcript.py: parse_subtitles.  The text is a str of pieces: "\n", " ",  *)
(* ":", ".", ",", "-->", runs of 1, 2 and 3 digits, words, and tags, which   *)
(* the patterns below never split.  Times are in seconds, counted in whole  *)
(* thousandths.                                                             *)

\* the most cues in a subtitle text
MaxCues == 3

Digits1 == {"1", "2"}
Digits2 == {"00", "01", "04", "05", "30", "35"}
Digits3 == {"000", "500"}

\* int(piece) for a run of digits
int(piece) ==
    CASE piece \in {"00", "000"} -> 0
      [] piece \in {"1", "01"} -> 1
      [] piece = "2" -> 2
      [] piece = "04" -> 4
      [] piece = "05" -> 5
      [] piece = "30" -> 30
      [] piece = "35" -> 35
      [] piece = "500" -> 500

\* transcript.py:22  <\d{2}:\d{2}:\d{2}\.\d{3}>
VttTimestampTags == {"<00:00:02.500>"}

\* transcript.py:21  <[^>]+>
HtmlTags == {"<b>", "</b>", "<c.colorE5E5E5>", "</c>"} \cup VttTimestampTags

\* the pieces of a text
Range(text) == {text[i] : i \in DOMAIN text}

\* str.splitlines(), of the value of raw
RECURSIVE splitlines(_)
splitlines(raw) ==
    CHOOSE lines \in
        {IF text = << >> THEN << >>
         ELSE LET n == Run(text, 1, {p \in Range(text) : p # "\n"})
              IN  IF n = Len(text) THEN <<text>>
                  ELSE <<SubSeq(text, 1, n)>>
                            \o splitlines(SubSeq(text, n + 2, Len(text))) :
            text \in {raw}} : TRUE

\* str.replace(",", ".")
replace_comma(text) == [i \in DOMAIN text |-> IF text[i] = "," THEN "." ELSE text[i]]

\* str.split(":"), of the value of ts
RECURSIVE split_colon(_)
split_colon(ts) ==
    CHOOSE parts \in
        {LET n == Run(text, 1, {p \in Range(text) : p # ":"})
         IN  IF n = Len(text) THEN <<text>>
             ELSE <<SubSeq(text, 1, n)>> \o split_colon(SubSeq(text, n + 2, Len(text))) :
            text \in {ts}} : TRUE

\* float(s) for s of the form SS.mmm, in thousandths
float(s) == int(s[1]) * 1000 + int(s[3])

\* _parse_timestamp with the hours counted as minutes
_parse_timestamp_hours_as_minutes(ts) ==
    LET parts == split_colon(replace_comma(strip(ts)))
    IN  IF Len(parts) = 3
        THEN int(parts[1][1]) * 60000 + int(parts[2][1]) * 60000 + float(parts[3])
        ELSE IF Len(parts) = 2
        THEN int(parts[1][1]) * 60000 + float(parts[2])
        ELSE 0

\* transcript.py:9-18  _parse_timestamp
_parse_timestamp(ts) ==
    LET parts == split_colon(replace_comma(strip(ts)))
    IN  IF Len(parts) = 3
        THEN int(parts[1][1]) * 3600000 + int(parts[2][1]) * 60000 + float(parts[3])
        ELSE IF Len(parts) = 2
        THEN int(parts[1][1]) * 60000 + float(parts[2])
        ELSE 0

\* \d{1,2}:\d{2}:\d{2}[.,]\d{3} at position i of line
timestamp_at(line, i) ==
    /\ i + 6 <= Len(line)
    /\ line[i] \in Digits1 \cup Digits2
    /\ line[i + 1] = ":"
    /\ line[i + 2] \in Digits2
    /\ line[i + 3] = ":"
    /\ line[i + 4] \in Digits2
    /\ line[i + 5] \in {".", ","}
    /\ line[i + 6] \in Digits3

\* transcript.py:24-26  _TIMESTAMP_LINE_RE at position i of line: the two groups
timestamp_line_at(line, i) ==
    IF ~timestamp_at(line, i) THEN None
    ELSE LET arrow == i + 7 + Run(line, i + 7, Whitespace)
             second == arrow + 1 + Run(line, arrow + 1, Whitespace)
         IN  IF arrow <= Len(line) /\ line[arrow] = "-->" /\ timestamp_at(line, second)
             THEN [group1 |-> SubSeq(line, i, i + 6),
                   group2 |-> SubSeq(line, second, second + 6)]
             ELSE None

\* _TIMESTAMP_LINE_RE.search(line): the leftmost match from i on, or None
RECURSIVE timestamp_line_search(_, _)
timestamp_line_search(line, i) ==
    IF i > Len(line) THEN None
    ELSE LET m == timestamp_line_at(line, i)
         IN  IF m # None THEN m ELSE timestamp_line_search(line, i + 1)

\* transcript.py:23  _SRT_SEQUENCE_RE.match(line): ^\d+\s*$
sequence_match(line) ==
    LET n == Run(line, 1, Digits1 \cup Digits2 \cup Digits3)
    IN  n >= 1 /\ n + Run(line, n + 1, Whitespace) = Len(line)

\* transcript.py:29-33  _clean_text
_clean_text(text) ==
    strip(SelectSeq(SelectSeq(text, LAMBDA p : p \notin VttTimestampTags),
                    LAMBDA p : p \notin HtmlTags))

\* " ".join(text_parts)
RECURSIVE join(_)
join(text_parts) ==
    IF Len(text_parts) = 0 THEN << >>
    ELSE IF Len(text_parts) = 1 THEN text_parts[1]
    ELSE text_parts[1] \o <<" ">> \o join(Tail(text_parts))

\* transcript.py:74-82  the lines of text from line i on: the parts, and the
\* line the loop stopped at
RECURSIVE collect_text(_, _, _)
collect_text(lines, i, text_parts) ==
    IF i > Len(lines) THEN [i |-> i, text_parts |-> text_parts]
    ELSE LET tl == strip(lines[i])
         IN  IF tl = << >> \/ timestamp_line_search(tl, 1) # None \/ sequence_match(tl)
             THEN [i |-> i, text_parts |-> text_parts]
             ELSE LET cleaned == _clean_text(tl)
                  IN  collect_text(lines, i + 1,
                                   IF cleaned # << >> THEN Append(text_parts, cleaned)
                                   ELSE text_parts)

\* the merge step that appends every cue
merge_or_append_always(segments, start, end, text) ==
    Append(segments, [start |-> start, end |-> end, text |-> text])

\* transcript.py:88-92  a completed cue merged with the last segment, or appended
merge_or_append(segments, start, end, text) ==
    IF Len(segments) > 0 /\ segments[Len(segments)].text = text
    THEN [segments EXCEPT ![Len(segments)].end = end]
    ELSE Append(segments, [start |-> start, end |-> end, text |-> text])

\* transcript.py:55-92  the loop over the lines, from line i on
RECURSIVE scan_lines(_, _, _)
scan_lines(lines, i, segments) ==
    IF i > Len(lines) THEN segments
    ELSE LET line == strip(lines[i])
             ts_match == timestamp_line_search(line, 1)
         IN  IF line = << >> \/ sequence_match(line) THEN scan_lines(lines, i + 1, segments)
             ELSE IF ts_match = None THEN scan_lines(lines, i + 1, segments)
             ELSE LET start == _parse_timestamp(ts_match.group1)
                      end == _parse_timestamp(ts_match.group2)
                      got == collect_text(lines, i + 1, << >>)
                      text == join(got.text_parts)
                  IN  IF text = << >> THEN scan_lines(lines, got.i, segments)
                      ELSE scan_lines(lines, got.i,
                                      merge_or_append(segments, start, end, text))

\* transcript.py:50-53  the line after the VTT header
RECURSIVE skip_header(_, _)
skip_header(lines, i) ==
    IF i <= Len(lines) /\ strip(lines[i]) # << >> THEN skip_header(lines, i + 1) ELSE i

\* transcript.py:36-94  parse_subtitles
parse_subtitles(raw) ==
    IF raw = None THEN << >>
    ELSE IF ~IsStr(raw) \/ raw.text = << >> THEN << >>
    ELSE LET lines == splitlines(raw.text)
             first == IF Len(lines) > 0 /\ strip(lines[1]) # << >>
                          /\ Head(strip(lines[1])) = "WEBVTT"
                      THEN skip_header(lines, 2)
                      ELSE 1
         IN  scan_lines(lines, first, << >>)

\* The subtitle texts: an optional VTT header, then up to MaxCues cues.  A cue
\* has a line of two timestamps (with hours and "." as in VTT, spaced and
\* unspaced; with hours and "," after a sequence number as in SRT; without
\* hours; with an end before the start), lines of text (plain, with tags, two lines within whitespace, none,
\* tags only) and a blank line.
Two(n) ==
    CASE n = 0 -> "00" [] n = 1 -> "01" [] n = 4 -> "04" [] n = 5 -> "05"
      [] n = 30 -> "30" [] n = 35 -> "35"

Three(n) == CASE n = 0 -> "000" [] n = 500 -> "500"

Time(h, m, s, ms) == [h |-> h, m |-> m, s |-> s, ms |-> ms]

CueTimings ==
    {[form |-> "vtt", hours |-> TRUE, from |-> Time(0, 0, 1, 0), to |-> Time(0, 0, 4, 0)],
     [form |-> "vtt-unspaced", hours |-> TRUE, from |-> Time(0, 0, 4, 0),
      to |-> Time(0, 0, 5, 500)],
     [form |-> "srt", hours |-> TRUE, from |-> Time(1, 30, 0, 0),
      to |-> Time(1, 30, 5, 500)],
     [form |-> "vtt", hours |-> FALSE, from |-> Time(0, 1, 30, 0),
      to |-> Time(0, 1, 35, 500)],
     [form |-> "vtt", hours |-> TRUE, from |-> Time(0, 0, 5, 0), to |-> Time(0, 0, 1, 0)]}

\* the lines of text of a cue, and the words they hold, line by line
CueTexts ==
    {[lines |-> << <<"Hello", " ", "world">> >>,
      words |-> << <<"Hello", " ", "world">> >>],
     [lines |-> << <<"<c.colorE5E5E5>", "Hello", " ", "<00:00:02.500>", "world", "</c>">> >>,
      words |-> << <<"Hello", " ", "world">> >>],
     [lines |-> << <<"Line one">>, <<" ", "<b>", "Line two", "</b>", " ">> >>,
      words |-> << <<"Line one">>, <<"Line two">> >>],
     [lines |-> << >>, words |-> << >>],
     [lines |-> << <<"<b>", "</b>">> >>, words |-> << >>]}

Cues == [timing : CueTimings, text : CueTexts]

SubtitleDocs ==
    [header : BOOLEAN, cues : UNION {[1..n -> Cues] : n \in 0..MaxCues}]

\* a timestamp as it is written
WrittenTime(t, hours, sep) ==
    (IF hours THEN <<Two(t.h), ":">> ELSE << >>)
        \o <<Two(t.m), ":", Two(t.s), sep, Three(t.ms)>>

\* the text of a cue
RECURSIVE Lines(_)
Lines(ls) == IF Len(ls) = 0 THEN << >> ELSE Head(ls) \o <<"\n">> \o Lines(Tail(ls))

WrittenCue(cue) ==
    LET sep == IF cue.timing.form = "srt" THEN "," ELSE "."
        arrow == IF cue.timing.form = "vtt-unspaced" THEN <<"-->">>
                 ELSE <<" ", "-->", " ">>
    IN  (IF cue.timing.form = "srt" THEN <<"1", "\n">> ELSE << >>)
            \o WrittenTime(cue.timing.from, cue.timing.hours, sep) \o arrow
            \o WrittenTime(cue.timing.to, cue.timing.hours, sep) \o <<"\n">>
            \o Lines(cue.text.lines) \o <<"\n">>

RECURSIVE WrittenCues(_)
WrittenCues(cues) ==
    IF Len(cues) = 0 THEN << >> ELSE WrittenCue(Head(cues)) \o WrittenCues(Tail(cues))

\* the subtitle text of a document
Written(doc) ==
    Str((IF doc.header
         THEN <<"WEBVTT", "\n", "Kind: captions", "\n", "\n">>
         ELSE << >>) \o WrittenCues(doc.cues))

InitSub ==
    /\ now = 0
    /\ ttl = DEFAULT_TTL_SECONDS
    /\ InitCacheVars
    /\ InitService
    /\ InitBatch
    /\ InitOps
    /\ farg \in [fn : {"parse_subtitles"}, x : SubtitleDocs]
    /\ fout = None
    /\ fagain = None
    /\ fother = None

\* parse_subtitles(raw) for the text of the document farg
ParseSubtitles ==
    /\ farg.fn = "parse_subtitles"
    /\ fout = None
    /\ fout' = [segments |-> parse_subtitles(Written(farg.x))]
    /\ UNCHANGED <<farg, fagain, fother>>

\* parse_subtitles(raw) for the text of the document without its last cue
ParseShorter ==
    /\ farg.fn = "parse_subtitles"
    /\ fout # None
    /\ fagain = None
    /\ Len(farg.x.cues) > 0
    /\ fagain' = [segments |->
                    parse_subtitles(Written([farg.x EXCEPT !.cues =
                        SubSeq(farg.x.cues, 1, Len(farg.x.cues) - 1)]))]
    /\ UNCHANGED <<farg, fout, fother>>

SubStep ==
    \/ ParseSubtitles
    \/ ParseShorter

NextSub ==
    SubStep /\ UNCHANGED <<now, cacheVars, svcVars, batchVars, opsVars>>

SpecSub == InitSub /\ [][NextSub]_vars

-----------------------------------------------------------------------------
(* batch.py: extract_playlist_info with max_videos any Python value and the  *)
(* backend's record a dict.  An int is a record holding its value, a float a *)
(* record holding its value in thousandths; a dict is a function on the keys *)
(* it holds, the empty dict the empty tuple like None (both are falsy).      *)

\* the most entries in a record of the backend
MaxEntries == 3

PyInt(n) == [type |-> "int", value |-> n]

PyFloat(thousandths) == [type |-> "float", value |-> thousandths]

\* isinstance(v, int)
isinstance_int(v) == v # None /\ v.type = "int"

\* batch.py:78-84  extract_playlist_info up to its await, for any max_videos
extract_playlist_info_validated(url, max_videos, c, clock) ==
    IF ~isinstance_int(max_videos)
    THEN Raise(BatchError(<<"max_videos must be an integer between 1 and 50">>), c)
    ELSE extract_playlist_info_start(url, max_videos.value, c, clock)

\* int(x) for a float x >= 0
int_of_float(x) == PyInt(x.value \div 1000)

\* batch.py:93-99  the summary of an entry that has an id
playlist_video(e) ==
    [video_id |-> e.id,
     title |-> IF has(e, "title") THEN e.title ELSE "",
     url |-> IF has(e, "url") /\ e.url # << >> THEN e.url
             ELSE <<"https://www.youtube.com/watch?v=", e.id>>,
     duration_seconds |-> IF has(e, "duration") /\ e.duration.value # 0
                          THEN int_of_float(e.duration)
                          ELSE None,
     channel |-> IF truthy(e, "uploader") THEN e.uploader
                 ELSE IF has(e, "channel") THEN e.channel
                 ELSE ""]

\* batch.py:90-99  for e in ...: the videos after the entries
RECURSIVE playlist_videos(_, _)
playlist_videos(entries, videos) ==
    IF entries = << >> THEN videos
    ELSE LET e == Head(entries)
         IN  IF e = None \/ ~truthy(e, "id")
             THEN playlist_videos(Tail(entries), videos)
             ELSE playlist_videos(Tail(entries), Append(videos, playlist_video(e)))

\* the slice that takes every entry
slice_all(entries, n) == entries

\* batch.py:90  entries[:n] for n >= 1
slice(entries, n) == SubSeq(entries, 1, IF n < Len(entries) THEN n ELSE Len(entries))

\* batch.py:57-68, 101-107  the PlaylistInfo made of the record and the videos
PlaylistInfo(info, videos) ==
    [type |-> "PlaylistInfo",
     title |-> IF has(info, "title") THEN info.title ELSE "",
     playlist_id |-> IF has(info, "id") THEN info.id ELSE "",
     channel |-> IF truthy(info, "uploader") THEN info.uploader
                 ELSE IF has(info, "channel") THEN info.channel
                 ELSE "",
     video_count |-> IF has(info, "playlist_count") /\ info.playlist_count # 0
                     THEN info.playlist_count
                     ELSE Len(videos),
     videos |-> videos]

\* batch.py:34-54  _sync_extract_playlist for a backend that returns a dict
sync_extract_playlist_dict(url, outcome) ==
    IF outcome.kind = "info" THEN [ok |-> TRUE, info |-> outcome.info]
    ELSE _sync_extract_playlist(url, outcome)

\* batch.py:86-109  the rest of extract_playlist_info
extract_playlist_info_finish(url, max_videos, key, outcome, c, clock) ==
    LET ran == sync_extract_playlist_dict(url, outcome)
    IN  IF ~ran.ok THEN Raise(ran.error, c)
        ELSE LET info == ran.info
                 entries == IF has(info, "entries") THEN info.entries ELSE << >>
                 videos == playlist_videos(slice(entries, max_videos), << >>)
                 result == PlaylistInfo(info, videos)
             IN  Return(result, TTLCache_set(c, key, result, clock))

\* The entries of the backend: with every field; with an id only; without an
\* id (a private video); with an empty id; None.
PlaylistEntries ==
    {[id |-> "v1", title |-> "First", url |-> <<"https://youtu.be/", "v1">>,
      duration |-> PyFloat(212500), uploader |-> "Channel"],
     [id |-> "v2"],
     [title |-> "[Private video]"],
     [id |-> "", title |-> "[Deleted video]"],
     None}

\* the records of the backend: a playlist of up to MaxEntries entries, and a
\* record without entries
PlaylistDicts ==
    {[id |-> "PL1", title |-> "Mix", playlist_count |-> 7, entries |-> es] :
        es \in UNION {[1..n -> PlaylistEntries] : n \in 0..MaxEntries}}
        \cup {[id |-> "PL1"]}

PlaylistOutcomes ==
    [kind : {"info"}, info : PlaylistDicts]
        \cup {[kind |-> "none"],
              [kind |-> "DownloadError", msg |-> Str(<<"ERROR: ", "Private", " ", "video">>)],
              [kind |-> "OSError", msg |-> Str(<<"disk full">>)]}

PlaylistUrl ==
    Str(<<"https://", "www.", "youtube.com", "/playlist?", "list=", "PL1">>)

\* the values given as max_videos: None, "20", 20.0 and ints around 1 and 50
MaxVideosInputs ==
    {None, Str(<<"20">>), PyFloat(20000),
     PyInt(0), PyInt(1), PyInt(2), PyInt(50), PyInt(51)}

InitPl ==
    /\ now = 0
    /\ ttl = DEFAULT_TTL_SECONDS
    /\ InitCacheVars
    /\ InitService
    /\ InitBatch
    /\ InitOps
    /\ InitFn

\* extract_playlist_info(url, max_videos) is called: it raises, returns the
\* cached result, or runs the backend in a thread and awaits it.  farg is the
\* call: its arguments, its position, its key and batch._cache as it found it.
PlaylistCall(url, max_videos) ==
    /\ IF farg = None THEN TRUE ELSE farg.pc = "done"
    /\ ncalls < MaxCalls
    /\ ncalls' = ncalls + 1
    /\ \E ran \in {extract_playlist_info_validated(url, max_videos, pcache, now)} :
        /\ farg' = [fn |-> "extract_playlist_info", url |-> url,
                    max_videos |-> max_videos,
                    pc |-> IF ran.status = "await" THEN "await" ELSE "done",
                    key |-> ran.key, before |-> pcache]
        /\ fout' = IF ran.status = "await" THEN None
                   ELSE [status |-> ran.status, value |-> ran.value, backend |-> 0,
                         outcome |-> None]
        /\ pcache' = ran.cache
    /\ UNCHANGED <<now, cache, nelapse, opcalls, lastStore, fagain, fother>>

\* the backend run of the call ends with outcome; the call stores its result and
\* returns it, or raises
PlaylistResume(outcome) ==
    /\ farg # None
    /\ farg.pc = "await"
    /\ \E ran \in {extract_playlist_info_finish(farg.url, farg.max_videos.value,
                                                farg.key, outcome, pcache, now)} :
        /\ farg' = [farg EXCEPT !.pc = "done"]
        /\ fout' = [status |-> ran.status, value |-> ran.value, backend |-> 1,
                    outcome |-> outcome]
        /\ pcache' = ran.cache
    /\ UNCHANGED <<now, cache, nelapse, opcalls, lastStore, ncalls, fagain, fother>>

PlStep ==
    \/ \E mv \in MaxVideosInputs : PlaylistCall(PlaylistUrl, mv)
    \/ \E outcome \in PlaylistOutcomes : PlaylistResume(outcome)
    \/ \E d \in Delays : Elapse(d) /\ UNCHANGED <<opsVars, fnVars>>

NextPl == PlStep /\ UNCHANGED <<cacheVars, batchVars>>

SpecPl == InitPl /\ [][NextPl]_vars

-----------------------------------------------------------------------------
(* ssh.py: the command line of yt-dlp and the two calls over SSH.  An        *)
(* argument of a command is a text, a sequence of pieces; a bool is a record *)
(* holding its value, a tuple and a list records holding their items.  The   *)
(* output of the remote command is a text whose pieces are the tokens of     *)
(* JSON, " ", "\n", the boundary marker and the lines of a subtitle file.    *)

SSHError(msg) == Exception("SSHError", Str(msg))

PyBool(b) == [type |-> "bool", value |-> b]

PyTuple(items) == [type |-> "tuple", items |-> items]

\* bool(v)
py_truthy(v) ==
    IF v = None THEN FALSE
    ELSE CASE v.type = "bool" -> v.value
           [] v.type = "int" -> v.value # 0
           [] v.type = "str" -> v.text # << >>
           [] v.type \in {"tuple", "list"} -> v.items # << >>

\* str(v) for a str and an int
py_str(v) == IF v.type = "int" THEN format_int(v.value) ELSE v.text

\* ssh.py:24-28  _OPT_MAP, in the order of the dict
_OPT_MAP ==
    << <<"proxy", "--proxy">>,
       <<"cookiefile", "--cookies">>,
       <<"socket_timeout", "--socket-timeout">> >>

\* ssh.py:30-37  _BOOL_FLAGS, in the order of the dict
_BOOL_FLAGS ==
    << <<"noplaylist", "--no-playlist">>,
       <<"skip_download", "--skip-download">>,
       <<"quiet", "--quiet">>,
       <<"no_warnings", "--no-warnings">>,
       <<"writesubtitles", "--write-subs">>,
       <<"writeautomaticsub", "--write-auto-subs">> >>

\* ssh.py:51-53  for key, flag in _BOOL_FLAGS.items(), from the k-th on
RECURSIVE bool_flags(_, _, _)
bool_flags(opts, k, args) ==
    IF k > Len(_BOOL_FLAGS) THEN args
    ELSE bool_flags(opts, k + 1,
                    IF py_truthy(get(opts, _BOOL_FLAGS[k][1]))
                    THEN Append(args, <<_BOOL_FLAGS[k][2]>>)
                    ELSE args)

\* ssh.py:55-58  for key, flag in _OPT_MAP.items(), from the k-th on
RECURSIVE opt_flags(_, _, _)
opt_flags(opts, k, args) ==
    IF k > Len(_OPT_MAP) THEN args
    ELSE LET val == get(opts, _OPT_MAP[k][1])
         IN  opt_flags(opts, k + 1,
                       IF val # None THEN args \o << <<_OPT_MAP[k][2]>>, py_str(val) >>
                       ELSE args)

\* ",".join(langs)
RECURSIVE join_comma(_)
join_comma(langs) ==
    IF Len(langs) = 0 THEN << >>
    ELSE IF Len(langs) = 1 THEN langs[1].text
    ELSE langs[1].text \o <<",">> \o join_comma(Tail(langs))

\* ssh.py:40-70  _build_ytdlp_cli_args
_build_ytdlp_cli_args(opts, url, dump_json) ==
    LET start == << <<"yt-dlp">> >> \o (IF dump_json THEN << <<"--dump-json">> >> ELSE << >>)
        flags == opt_flags(opts, 1, bool_flags(opts, 1, start))
        browser == get(opts, "cookiesfrombrowser")
        name == IF browser.type = "tuple" THEN browser.items[1] ELSE browser
        with_browser == IF py_truthy(browser)
                        THEN flags \o << <<"--cookies-from-browser">>, py_str(name) >>
                        ELSE flags
        langs == get(opts, "subtitleslangs")
        with_langs == IF py_truthy(langs)
                      THEN with_browser \o << <<"--sub-langs">>, join_comma(langs.items) >>
                      ELSE with_browser
    IN  Append(with_langs, url.text)

\* pieces holding a character that the shell reads
ShellUnsafe == WithQuery \cup {"&", " ", "\n"}

\* shlex.quote(a) (no piece holds a single quote)
shlex_quote(a) ==
    IF a = << >> THEN <<"''">>
    ELSE IF \E i \in DOMAIN a : a[i] \in ShellUnsafe THEN <<"'">> \o a \o <<"'">>
    ELSE a

\* " ".join(shlex.quote(a) for a in args)
command_line(args) == join([i \in DOMAIN args |-> shlex_quote(args[i])])

\* ssh.py:78-94  _run_ssh: the invocation it makes
_run_ssh(ssh_host, remote_cmd, timeout) ==
    [cmd |-> << <<"ssh">>, <<"-o">>, <<"BatchMode=yes">>, <<"-o">>,
                <<"ConnectTimeout=10">>, ssh_host.text, remote_cmd >>,
     timeout |-> timeout]

AllWhitespace == {" ", "\n"}

\* str.strip() of a text of more than one line
RECURSIVE lstrip_lines(_)
lstrip_lines(text) ==
    IF text # << >> /\ Head(text) \in AllWhitespace THEN lstrip_lines(Tail(text))
    ELSE text

RECURSIVE rstrip_lines(_)
rstrip_lines(text) ==
    IF text # << >> /\ text[Len(text)] \in AllWhitespace
    THEN rstrip_lines(SubSeq(text, 1, Len(text) - 1)) ELSE text

strip_lines(text) == rstrip_lines(lstrip_lines(text))

\* the string literals of the JSON texts
JsonStrings ==
    {"\"id\"", "\"abc123\"", "\"title\"", "\"Test\"", "\"subtitles\"", "\"en\"",
     "\"zh\"", "\"ext\"", "\"json3\""}

\* the str a string literal stands for
unquote(literal) ==
    CASE literal = "\"id\"" -> "id"
      [] literal = "\"abc123\"" -> "abc123"
      [] literal = "\"title\"" -> "title"
      [] literal = "\"Test\"" -> "Test"
      [] literal = "\"subtitles\"" -> "subtitles"
      [] literal = "\"en\"" -> "en"
      [] literal = "\"zh\"" -> "zh"
      [] literal = "\"ext\"" -> "ext"
      [] literal = "\"json3\"" -> "json3"

\* the position of the first piece of text from i on that is not whitespace
skip_whitespace(text, i) == i + Run(text, i, AllWhitespace)

JsonFail == [ok |-> FALSE]

\* json: the value that starts at position i of text and the position after it;
\* an object is a dict, an array a list, a string literal a str
RECURSIVE json_value(_, _), json_members(_, _, _), json_elements(_, _, _)
json_value(text, i) ==
    LET at == skip_whitespace(text, i)
        inside == skip_whitespace(text, at + 1)
    IN  IF at > Len(text) THEN JsonFail
        ELSE IF text[at] \in JsonStrings
        THEN [ok |-> TRUE, value |-> unquote(text[at]), next |-> at + 1]
        ELSE IF text[at] = "{"
        THEN IF inside <= Len(text) /\ text[inside] = "}"
             THEN [ok |-> TRUE, value |-> << >>, next |-> inside + 1]
             ELSE json_members(text, inside, << >>)
        ELSE IF text[at] = "["
        THEN IF inside <= Len(text) /\ text[inside] = "]"
             THEN [ok |-> TRUE, value |-> << >>, next |-> inside + 1]
             ELSE json_elements(text, inside, << >>)
        ELSE JsonFail

\* the members of an object from the key at position i on, added to dict
json_members(text, i, dict) ==
    IF i > Len(text) \/ text[i] \notin JsonStrings THEN JsonFail
    ELSE LET colon == skip_whitespace(text, i + 1)
         IN  IF colon > Len(text) \/ text[colon] # ":" THEN JsonFail
             ELSE LET v == json_value(text, colon + 1)
                  IN  IF ~v.ok THEN JsonFail
                      ELSE LET added == DictPut(dict, unquote(text[i]), v.value)
                               after == skip_whitespace(text, v.next)
                           IN  IF after > Len(text) THEN JsonFail
                               ELSE IF text[after] = "}"
                               THEN [ok |-> TRUE, value |-> added, next |-> after + 1]
                               ELSE IF text[after] = ","
                               THEN json_members(text, skip_whitespace(text, after + 1),
                                                 added)
                               ELSE JsonFail

\* the elements of an array from position i on, added to list
json_elements(text, i, list) ==
    LET v == json_value(text, i)
    IN  IF ~v.ok THEN JsonFail
        ELSE LET added == Append(list, v.value)
                 after == skip_whitespace(text, v.next)
             IN  IF after > Len(text) THEN JsonFail
                 ELSE IF text[after] = "]"
                 THEN [ok |-> TRUE, value |-> added, next |-> after + 1]
                 ELSE IF text[after] = ","
                 THEN json_elements(text, after + 1, added)
                 ELSE JsonFail

\* json.loads(text): one value and whitespace around it, or JSONDecodeError
json_loads(text) ==
    LET v == json_value(text, 1)
    IN  IF v.ok /\ skip_whitespace(text, v.next) > Len(text)
        THEN [ok |-> TRUE, value |-> v.value]
        ELSE JsonFail

\* subprocess.TimeoutExpired, which subprocess.run raises after timeout seconds
TimeoutExpired(call) ==
    [status |-> "raise",
     value |-> Exception("TimeoutExpired", Str(<<"timed out">>)),
     calls |-> <<call>>]

\* proc.stderr.strip() or f"ssh exited with code {proc.returncode}"
exit_message(proc) ==
    IF strip_lines(proc.stderr.text) # << >> THEN strip_lines(proc.stderr.text)
    ELSE <<"ssh exited with code ">> \o format_int(proc.returncode)

\* ssh_extract that reads the output whatever the exit status
ssh_extract_ignores_status(url, opts, ssh_host, proc) ==
    LET call == _run_ssh(ssh_host,
                         command_line(_build_ytdlp_cli_args(opts, url, TRUE)), 60)
        stdout == strip_lines(proc.stdout.text)
        loaded == json_loads(stdout)
    IN  IF proc.kind = "TimeoutExpired" THEN TimeoutExpired(call)
        ELSE IF stdout = << >>
        THEN [status |-> "raise",
              value |-> SSHError(<<"Remote yt-dlp returned empty output">>),
              calls |-> <<call>>]
        ELSE IF ~loaded.ok
        THEN [status |-> "raise",
              value |-> SSHError(<<"Invalid JSON from remote yt-dlp: ">>),
              calls |-> <<call>>]
        ELSE [status |-> "return", value |-> loaded.value, calls |-> <<call>>]

\* ssh.py:102-116  ssh_extract, proc what the remote command did: the invocations
\* made, and what is returned or raised
ssh_extract(url, opts, ssh_host, proc) ==
    LET call == _run_ssh(ssh_host,
                         command_line(_build_ytdlp_cli_args(opts, url, TRUE)), 60)
        stdout == strip_lines(proc.stdout.text)
        loaded == json_loads(stdout)
    IN  IF proc.kind = "TimeoutExpired" THEN TimeoutExpired(call)
        ELSE IF proc.returncode # 0
        THEN [status |-> "raise", value |-> SSHError(exit_message(proc)),
              calls |-> <<call>>]
        ELSE IF stdout = << >>
        THEN [status |-> "raise",
              value |-> SSHError(<<"Remote yt-dlp returned empty output">>),
              calls |-> <<call>>]
        ELSE IF ~loaded.ok
        THEN [status |-> "raise",
              value |-> SSHError(<<"Invalid JSON from remote yt-dlp: ">>),
              calls |-> <<call>>]
        ELSE [status |-> "return", value |-> loaded.value, calls |-> <<call>>]

SUBTITLE_BOUNDARY == "---SUBTITLE_BOUNDARY---"

\* the split that cuts at the last marker
split_boundary_last(text) ==
    LET marks == {i \in DOMAIN text : text[i] = SUBTITLE_BOUNDARY}
        at == CHOOSE i \in marks : \A j \in marks : j <= i
    IN  IF marks = {} THEN <<text>>
        ELSE <<SubSeq(text, 1, at - 1), SubSeq(text, at + 1, Len(text))>>

\* ssh.py:156  stdout.split("---SUBTITLE_BOUNDARY---", 1)
split_boundary(text) ==
    LET at == 1 + Run(text, 1, Range(text) \ {SUBTITLE_BOUNDARY})
    IN  IF at > Len(text) THEN <<text>>
        ELSE <<SubSeq(text, 1, at - 1), SubSeq(text, at + 1, Len(text))>>

\* ssh.py:132-133  the options of the subtitle run
sub_opts(opts, lang) ==
    DictPut(DictPut(DictPut(DictPut(opts,
        "writesubtitles", PyBool(TRUE)),
        "writeautomaticsub", PyBool(TRUE)),
        "skip_download", PyBool(TRUE)),
        "subtitleslangs", List(<<Str(<<lang>>), Str(<<lang, "-orig">>)>>))

\* ssh.py:137-146  the remote script around the command line
remote_script(args) ==
    <<"set -e; ", "TMPDIR=$(mktemp -d); ", "cd \"$TMPDIR\"; ">>
        \o command_line(args)
        \o <<" > info.json; ", "cat info.json; ", "echo '---SUBTITLE_BOUNDARY---'; ",
             "cat \"$TMPDIR\"/*.vtt 2>/dev/null || true; ", "rm -rf \"$TMPDIR\"">>

\* ssh.py:166-168  the subtitle data put into the record
inject(info, lang, sub_part) ==
    LET subs == IF has(info, "subtitles") THEN info.subtitles ELSE << >>
        tracks == IF has(subs, lang) THEN subs[lang] ELSE << >>
    IN  IF sub_part = << >> THEN info
        ELSE DictPut(info, "subtitles",
                     DictPut(subs, lang,
                             Append(tracks, [data |-> sub_part, ext |-> "vtt"])))

\* ssh.py:119-170  ssh_extract_subtitles
ssh_extract_subtitles(url, opts, ssh_host, lang, proc) ==
    LET args == _build_ytdlp_cli_args(sub_opts(opts, lang), url, TRUE)
        call == _run_ssh(ssh_host, remote_script(args), 90)
        stdout == strip_lines(proc.stdout.text)
        parts == split_boundary(stdout)
        json_part == strip_lines(parts[1])
        sub_part == IF Len(parts) > 1 THEN strip_lines(parts[2]) ELSE << >>
        loaded == json_loads(json_part)
    IN  IF proc.kind = "TimeoutExpired" THEN TimeoutExpired(call)
        ELSE IF proc.returncode # 0
        THEN [status |-> "raise", value |-> SSHError(exit_message(proc)),
              calls |-> <<call>>]
        ELSE IF stdout = << >>
        THEN [status |-> "raise",
              value |-> SSHError(<<"Remote yt-dlp returned empty output">>),
              calls |-> <<call>>]
        ELSE IF ~loaded.ok
        THEN [status |-> "raise",
              value |-> SSHError(<<"Invalid JSON from remote yt-dlp: ">>),
              calls |-> <<call>>]
        ELSE [status |-> "return", value |-> inject(loaded.value, lang, sub_part),
              calls |-> <<call>>]

\* The JSON documents: an object is its members in order, an array its items.
JStr(s) == [t |-> "str", s |-> s]
JArr(items) == [t |-> "arr", items |-> items]
JObj(members) == [t |-> "obj", members |-> members]

Track == JObj(<< <<"ext", JStr("json3")>> >>)

\* the records of the backend: without subtitles, with none, with a track in
\* English, with a track in Chinese
InfoDocs ==
    {JObj(<< <<"id", JStr("abc123")>>, <<"title", JStr("Test")>> >>),
     JObj(<< <<"id", JStr("abc123")>>, <<"subtitles", JObj(<< >>)>> >>),
     JObj(<< <<"id", JStr("abc123")>>,
             <<"subtitles", JObj(<< <<"en", JArr(<<Track>>)>> >>)>> >>),
     JObj(<< <<"id", JStr("abc123")>>,
             <<"subtitles", JObj(<< <<"zh", JArr(<<Track>>)>> >>)>> >>)}

\* the dict, list or str a document stands for
RECURSIVE ValueOf(_)
ValueOf(doc) ==
    CASE doc.t = "str" -> doc.s
      [] doc.t = "arr" -> [i \in DOMAIN doc.items |-> ValueOf(doc.items[i])]
      [] doc.t = "obj" ->
            [k \in {doc.members[i][1] : i \in DOMAIN doc.members} |->
                ValueOf((CHOOSE m \in Range(doc.members) : m[1] = k)[2])]

\* the literal of a str
quote(s) ==
    CASE s = "id" -> "\"id\""
      [] s = "abc123" -> "\"abc123\""
      [] s = "title" -> "\"title\""
      [] s = "Test" -> "\"Test\""
      [] s = "subtitles" -> "\"subtitles\""
      [] s = "en" -> "\"en\""
      [] s = "zh" -> "\"zh\""
      [] s = "ext" -> "\"ext\""
      [] s = "json3" -> "\"json3\""

\* a document as json.dumps writes it (gap: the whitespace after "," and ":")
RECURSIVE WrittenJson(_, _), WrittenList(_, _, _)
WrittenJson(doc, gap) ==
    CASE doc.t = "str" -> <<quote(doc.s)>>
      [] doc.t = "arr" -> <<"[">> \o WrittenList(doc.items, gap, FALSE) \o <<"]">>
      [] doc.t = "obj" -> <<"{">> \o WrittenList(doc.members, gap, TRUE) \o <<"}">>

WrittenList(items, gap, keyed) ==
    IF Len(items) = 0 THEN << >>
    ELSE (IF keyed
          THEN <<quote(items[1][1]), ":">> \o gap \o WrittenJson(items[1][2], gap)
          ELSE WrittenJson(items[1], gap))
            \o (IF Len(items) = 1 THEN << >>
                ELSE <<",">> \o gap \o WrittenList(Tail(items), gap, keyed))

\* what the remote command prints where the record is due: the record (compact,
\* or as json.dumps spaces it, within newlines), nothing, whitespace, a message
\* that is not JSON, a record cut short, a record with a warning after it
JsonOutputs ==
    [form : {"json"}, doc : InfoDocs, gap : {<< >>, <<" ">>}, pad : {<< >>, <<"\n">>}]
        \cup [form : {"empty", "blank", "message", "cut", "trailing"},
              doc : {CHOOSE d \in InfoDocs : Len(d.members) = 2 /\ d.members[2][1] = "title"},
              gap : {<<" ">>}, pad : {<<"\n">>}]

WrittenOutput(out) ==
    CASE out.form = "json" -> out.pad \o WrittenJson(out.doc, out.gap) \o out.pad
      [] out.form = "empty" -> << >>
      [] out.form = "blank" -> <<"\n", " ", "\n">>
      [] out.form = "message" -> <<"ERROR: unable to download">>
      [] out.form = "cut" ->
            SubSeq(WrittenJson(out.doc, out.gap), 1,
                   Len(WrittenJson(out.doc, out.gap)) - 1)
      [] out.form = "trailing" ->
            WrittenJson(out.doc, out.gap) \o <<"\n", "WARNING: retrying">>

\* the subtitle files the remote script prints after the marker: none, one,
\* one that holds the marker in a line of text
Payloads ==
    {<< >>,
     <<"WEBVTT", "\n", "\n", "00:00:01.000 --> 00:00:04.000", "\n", "Hello world">>,
     <<"WEBVTT", "\n", "\n", "00:00:01.000 --> 00:00:04.000", "\n",
       SUBTITLE_BOUNDARY, "\n", "Hello world">>}

\* what the remote script prints: the record, the marker's line (unless the
\* script stopped before it), the subtitle file
ScriptOutputs ==
    [json : JsonOutputs, marker : BOOLEAN, payload : Payloads, eol : {<< >>, <<"\n">>}]

WrittenScript(out) ==
    WrittenOutput(out.json)
        \o (IF out.marker THEN <<"\n", SUBTITLE_BOUNDARY, "\n">> \o out.payload ELSE << >>)
        \o out.eol

\* how the remote command ended
Stderrs == {Str(<< >>), Str(<<"Connection refused", "\n">>), Str(<<" ", "\n">>)}

Procs(outputs) ==
    [kind : {"completed"}, returncode : {0, 1, 255}, stderr : Stderrs, out : outputs]
        \cup {[kind |-> "TimeoutExpired"]}

\* the CompletedProcess of a remote command
CompletedProcess(p, text) ==
    IF p.kind = "TimeoutExpired" THEN p
    ELSE [kind |-> p.kind, returncode |-> p.returncode, stderr |-> p.stderr,
          stdout |-> Str(text)]

\* an option: absent, or present with a value
Absent == [given |-> FALSE]
Given(v) == [given |-> TRUE, v |-> v]

\* the dict of the options given
RECURSIVE OptsDict(_, _)
OptsDict(keys, choice) ==
    IF keys = {} THEN << >>
    ELSE LET k == CHOOSE x \in keys : TRUE
             rest == OptsDict(keys \ {k}, choice)
         IN  IF choice[k].given THEN DictPut(rest, k, choice[k].v) ELSE rest

\* the options drawn for _build_ytdlp_cli_args: per key absent, falsy and truthy
OptChoices ==
    [noplaylist : {Absent, Given(PyBool(FALSE)), Given(PyBool(TRUE))},
     skip_download : {Absent, Given(PyBool(TRUE))},
     writesubtitles : {Absent, Given(PyBool(TRUE))},
     proxy : {Absent, Given(None), Given(Str(<< >>)),
              Given(Str(<<"http://", "127.0.0.1:7897">>))},
     cookiefile : {Absent, Given(Str(<< >>)), Given(Str(<<"/tmp/cookies.txt">>))},
     socket_timeout : {Absent, Given(PyInt(0)), Given(PyInt(30))},
     cookiesfrombrowser : {Absent, Given(Str(<< >>)), Given(Str(<<"chrome">>)),
                           Given(PyTuple(<<Str(<<"chrome">>)>>))},
     subtitleslangs : {Absent, Given(List(<< >>)),
                       Given(List(<<Str(<<"en">>), Str(<<"en", "-orig">>)>>))}]

OptKeys ==
    {"noplaylist", "skip_download", "writesubtitles", "proxy", "cookiefile",
     "socket_timeout", "cookiesfrombrowser", "subtitleslangs"}

\* the options the extraction service passes to the calls over SSH
ServiceOpts ==
    {<< >>,
     OptsDict({"quiet", "proxy"},
              [quiet |-> Given(PyBool(TRUE)),
               proxy |-> Given(Str(<<"http://", "127.0.0.1:7897">>))])}

SshHost == Str(<<"user@host">>)

SshInputs ==
    [fn : {"_build_ytdlp_cli_args"}, choice : OptChoices, url : {WatchUrl},
     dump_json : BOOLEAN]
        \cup [fn : {"ssh_extract"}, url : {WatchUrl}, opts : ServiceOpts,
              proc : Procs(JsonOutputs)]
        \cup [fn : {"ssh_extract_subtitles"}, url : {WatchUrl}, opts : ServiceOpts,
              lang : {"en"}, proc : Procs(ScriptOutputs)]

InitSsh ==
    /\ now = 0
    /\ ttl = DEFAULT_TTL_SECONDS
    /\ InitCacheVars
    /\ InitService
    /\ InitBatch
    /\ InitOps
    /\ farg \in SshInputs
    /\ fout = None
    /\ fagain = None
    /\ fother = None

\* _build_ytdlp_cli_args(opts, url, dump_json=...) for the options drawn
BuildArgs ==
    /\ farg.fn = "_build_ytdlp_cli_args"
    /\ fout = None
    /\ fout' = [args |-> _build_ytdlp_cli_args(OptsDict(OptKeys, farg.choice),
                                               farg.url, farg.dump_json)]
    /\ UNCHANGED <<farg, fagain, fother>>

\* ssh_extract(url, opts, ssh_host) with the remote command ending as drawn
SshExtract ==
    /\ farg.fn = "ssh_extract"
    /\ fout = None
    /\ fout' = ssh_extract(farg.url, farg.opts, SshHost,
                           CompletedProcess(farg.proc, WrittenOutput(farg.proc.out)))
    /\ UNCHANGED <<farg, fagain, fother>>

\* ssh_extract_subtitles(url, opts, ssh_host, lang) with the remote script ending
\* as drawn
SshExtractSubtitles ==
    /\ farg.fn = "ssh_extract_subtitles"
    /\ fout = None
    /\ fout' = ssh_extract_subtitles(farg.url, farg.opts, SshHost, farg.lang,
                                     CompletedProcess(farg.proc,
                                                      WrittenScript(farg.proc.out)))
    /\ UNCHANGED <<farg, fagain, fother>>

SshStep ==
    \/ BuildArgs
    \/ SshExtract
    \/ SshExtractSubtitles

NextSsh ==
    SshStep /\ UNCHANGED <<now, cacheVars, svcVars, batchVars, opsVars>>

SpecSsh == InitSsh /\ [][NextSsh]_vars


-----------------------------------------------------------------------------
(* Claims on the expiring cache, checked under SpecCache. *)

\* the get operations that have returned
DoneGets == {t \in Threads : threads[t].pc = "idle" /\ threads[t].op.name = "get"}

\* C7: a get(k) at time t after the latest set(k, v) at time T returns v when
\* t - T < ttl and absent when t - T >= ttl (T + ttl itself is expired), and after
\* a get has found the entry absent no get returns v until k is set again.
C7_TtlBoundary ==
    \A t \in DoneGets :
        threads[t].seen # None =>
            /\ threads[t].now - threads[t].seen[1] < ttl => threads[t].ret = threads[t].seen[2]
            /\ threads[t].now - threads[t].seen[1] >= ttl => threads[t].ret = None
            /\ threads[t].stale => threads[t].ret = None

\* one get at T + ttl - 1 returned v and another at T + ttl found the same entry absent
C7_Witness ==
    \E t \in DoneGets, u \in DoneGets :
        /\ threads[t].seen # None
        /\ threads[u].seen = threads[t].seen
        /\ threads[t].op.key = threads[u].op.key
        /\ threads[t].now + 1 = threads[t].seen[1] + ttl
        /\ threads[t].ret = threads[t].seen[2]
        /\ threads[u].now = threads[u].seen[1] + ttl
        /\ threads[u].ret = None

\* C8: after set(k, v1) at T1 and set(k, v2) at T2, a get(k) at t with t - T2 < ttl
\* returns v2 even when t - T1 >= ttl, no get returns v1 any more, and the one
\* entry the store holds for k is <<T2, v2>>.
C8_OverwriteResetsAge ==
    /\ \A t \in DoneGets :
            (threads[t].seen # None /\ threads[t].before # None) =>
                /\ threads[t].now - threads[t].seen[1] < ttl =>
                        threads[t].ret = threads[t].seen[2]
                /\ threads[t].before[2] # threads[t].seen[2] =>
                        threads[t].ret # threads[t].before[2]
    /\ \A k \in DOMAIN store : store[k] = lastSet[k]

\* a get returned v2 at a time when the first set, of another value, was older than ttl
C8_Witness ==
    \E t \in DoneGets :
        /\ threads[t].seen # None
        /\ threads[t].before # None
        /\ threads[t].before[2] # threads[t].seen[2]
        /\ threads[t].now - threads[t].before[1] >= ttl
        /\ threads[t].now - threads[t].seen[1] < ttl
        /\ threads[t].ret = threads[t].seen[2]
        /\ Cardinality(DOMAIN store) = 1

\* C9: at most one thread is inside get, set or len at a time, and it holds the
\* lock; so the operations take effect one at a time in the order of the lock:
\* the store is the one that order gives, every operation returns what it
\* returns when run alone in that order, and a get returns the value of the
\* latest set of its key before it, unless that set is ttl old.
C9_Serialized ==
    /\ Cardinality(Inside) <= 1
    /\ \A t \in Inside : lock = t
    /\ Inside = {} => (lock = Free /\ store = serial)
    /\ \A t \in Threads :
            (threads[t].pc = "idle" /\ threads[t].op.name \in {"get", "len"}) =>
                threads[t].ret = threads[t].expect
    /\ \A t \in DoneGets :
            threads[t].ret =
                IF threads[t].seen # None /\ threads[t].now - threads[t].seen[1] < ttl
                THEN threads[t].seen[2] ELSE None

\* a thread is inside an operation, past its clock read, after another thread's
\* get returned a value and while the other thread is out
C9_Witness ==
    \E t \in Threads, u \in DoneGets :
        /\ t # u
        /\ threads[t].pc \in {"evict_scan", "evict_del"}
        /\ lock = t
        /\ threads[u].ret \in Values

-----------------------------------------------------------------------------
(* Claims on batch_get_info, checked under Spec. *)

\* the positions of the call's tasks
Positions == 1..Len(tasks)

\* the positions whose extraction raised, and those whose extraction returned
Failed == {i \in Positions : tasks[i].out # None /\ tasks[i].out.status = "raise"}
Succeeded == {i \in Positions : tasks[i].out # None /\ tasks[i].out.status = "return"}

\* C1: a call on a valid batch of N URLs of which K extractions failed returns
\* total = N, succeeded = N - K, failed = K (so total = succeeded + failed), and
\* results[i].success holds exactly when the extraction of urls[i] succeeded.
C1_Counts ==
    bpc = "returned" =>
        /\ Len(urls.items) \in 1.._MAX_BATCH
        /\ bres.total = Len(urls.items)
        /\ bres.failed = Cardinality(Failed)
        /\ bres.succeeded = Len(urls.items) - Cardinality(Failed)
        /\ bres.total = bres.succeeded + bres.failed
        /\ Len(bres.results) = Len(urls.items)
        /\ \A i \in 1..Len(urls.items) : bres.results[i].success <=> i \in Succeeded

\* a call on MaxLen URLs returned with some extractions failed and some not
C1_Witness ==
    /\ bpc = "returned"
    /\ bres.total = MaxLen
    /\ bres.failed \in 1..(MaxLen - 1)
    /\ bres.succeeded = MaxLen - bres.failed

\* the item _extract_one makes of what the extraction of position i did
ItemOf(i) ==
    IF tasks[i].out.status = "return"
    THEN [url |-> urls.items[i], success |-> TRUE,
          data |-> to_dict(tasks[i].out.value), error |-> None]
    ELSE [url |-> urls.items[i], success |-> FALSE,
          data |-> None, error |-> str(tasks[i].out.value)]

\* C2: in whatever order the tasks of a batch complete, results[i].url = urls[i]
\* for every position i and results[i] carries the outcome of the extraction
\* started for urls[i], also when a URL occurs more than once.
C2_InputOrder ==
    bpc = "returned" =>
        /\ Len(bres.results) = Len(urls.items)
        /\ \A i \in 1..Len(urls.items) :
                /\ bres.results[i].url = urls.items[i]
                /\ tasks[i].out # None
                /\ bres.results[i] = ItemOf(i)

\* a call returned whose tasks did not complete in input order: a later position
\* finished first, and the same URL occurs twice with two different outcomes
C2_Witness ==
    /\ bpc = "returned"
    /\ ahead
    /\ \E i \in Positions, j \in Positions :
            /\ i < j
            /\ urls.items[i] = urls.items[j]
            /\ ~bres.results[i].success
            /\ bres.results[j].success

\* C3: at no time are more than _CONCURRENCY (3) tasks of one call between
\* acquiring and releasing the semaphore, whatever the size of the batch; the
\* permits left and the permits held add up to 3, and a task waits only while
\* all three are held.
C3_AtMostThree ==
    /\ Cardinality(Holding) <= _CONCURRENCY
    /\ bpc = "gather" =>
            /\ sem >= 0
            /\ sem + Cardinality(Holding) = _CONCURRENCY
            /\ waiters # << >> => Cardinality(Holding) = _CONCURRENCY

\* three tasks of a batch of _MAX_BATCH hold the permits, in the backend, and the
\* other seven wait
C3_Witness ==
    /\ bpc = "gather"
    /\ Len(tasks) = _MAX_BATCH
    /\ \A i \in Holding : tasks[i].pc = "thread"
    /\ Cardinality(Holding) = _CONCURRENCY
    /\ Len(waiters) = _MAX_BATCH - _CONCURRENCY

\* C4: whatever the extraction of an item raises (invalid URL, geo restriction,
\* unavailable video, generic extraction failure, anything else) becomes that
\* item's record with success false, the error's message and no data; the call
\* never fails because of an item; an item whose extraction succeeded has
\* success true, its data and no error.
C4_ErrorsBecomeItems ==
    /\ \A i \in Failed :
            /\ tasks[i].pc = "done"
            /\ tasks[i].item # None
            /\ ~tasks[i].item.success
            /\ tasks[i].item.error = str(tasks[i].out.value)
            /\ tasks[i].item.data = None
    /\ \A i \in Succeeded :
            /\ tasks[i].pc = "done"
            /\ tasks[i].item.success
            /\ tasks[i].item.data = to_dict(tasks[i].out.value)
            /\ tasks[i].item.data # None
            /\ tasks[i].item.error = None
    /\ bpc = "raised" => Positions = {}
    /\ bpc = "returned" => \A i \in Positions : bres.results[i] = tasks[i].item

\* the classes of the exceptions the extractions of the call raised
Raised == {tasks[i].out.value.exc : i \in Failed}

\* a call returned with one item that succeeded, one whose URL was invalid and
\* one whose extraction raised an exception that is no ExtractionError
C4_Witness ==
    /\ bpc = "returned"
    /\ Succeeded # {}
    /\ "InvalidURLError" \in Raised
    /\ "OSError" \in Raised

\* C5: batch_get_info returns only when every one of its tasks has returned; an
\* item's failure neither ends the call nor keeps another item from starting,
\* and the extraction is invoked exactly once for each position of the list.
C5_WaitsForAll ==
    /\ bpc \in {"returned", "raised"} =>
            \A i \in Positions :
                tasks[i].pc = "done" /\ tasks[i].calls = 1 /\ tasks[i].out # None
    /\ bpc = "returned" => Len(tasks) = Len(urls.items)
    /\ \A i \in Positions : tasks[i].calls <= 1
    /\ (bpc = "gather" /\ AllStarted /\ Holding = {}) =>
            \A i \in Positions : tasks[i].pc = "done"

\* a call on more URLs than there are permits returned although the extraction
\* of its first position had failed
C5_Witness ==
    /\ bpc = "returned"
    /\ Len(tasks) > _CONCURRENCY
    /\ 1 \in Failed
    /\ Succeeded # {}
    /\ \A i \in Positions : tasks[i].calls = 1

\* the arguments batch_get_info is to reject
Rejected(u) == u.type # "list" \/ Len(u.items) = 0 \/ Len(u.items) > 10

\* C6: batch_get_info raises BatchError when urls is no list, is empty or has more
\* than 10 items, and then makes no task, takes no permit, invokes no extraction
\* and leaves the cache alone; it accepts a list of 10 and rejects one of 11.
C6_RejectsBeforeWork ==
    /\ [](bpc # "idle" =>
            /\ bpc = "raised" <=> Rejected(urls)
            /\ bpc = "raised" => (bres.exc = "BatchError" /\ tasks = << >>))
    /\ [][bpc' = "raised" =>
            /\ tasks' = << >>
            /\ waiters' = << >>
            /\ sem' = sem
            /\ cache' = cache]_vars

\* a list of 11 URLs was rejected, after a call that had filled the cache; no
\* task exists
C6_Witness ==
    /\ bpc = "raised"
    /\ urls.type = "list"
    /\ Len(urls.items) = _MAX_BATCH + 1
    /\ cache # << >>
    /\ tasks = << >>

-----------------------------------------------------------------------------
(* Claims on the caching operations, checked under SpecOps. *)

\* the calls that have ended
DoneCalls == {a \in Callers : opcalls[a].pc = "done"}

\* the latest of the stored results S
Latest(S) == CHOOSE e \in S : e.seq = MaxSeq(S)

\* the canonical URL of a URL the resolver accepts
CanonicalOf(url) == detect_platform(url).canonical_url

\* the results stored before call c began by calls of the same operation with
\* the same canonical URL and the same other argument
SameCanonical(c) ==
    {e \in c.prior :
        /\ e.op = c.op
        /\ e.param = c.param
        /\ detect_platform(e.url).ok
        /\ detect_platform(c.url).ok
        /\ CanonicalOf(e.url) = CanonicalOf(c.url)}

\* call c, made less than the time to live after the latest of the results S was
\* stored, returned that result and did not invoke the backend, which the call
\* that stored it invoked once
HitOn(c, S) ==
    (S # {} /\ c.t - Latest(S).at < DEFAULT_TTL_SECONDS) =>
        /\ c.status = "return"
        /\ c.ret = Latest(S).value
        /\ c.backend = 0
        /\ Latest(S).backend + c.backend = 1

\* C10: for each of the five operations, a call made after a call of
\* the same operation with the same canonical URL and the same other argument has
\* succeeded, within the time to live, returns the stored result and does not
\* invoke the backend: one invocation over the two calls.
C10_CacheHit ==
    \A a \in DoneCalls : HitOn(opcalls[a], SameCanonical(opcalls[a]))

-----------------------------------------------------------------------------
(* Claims on failing calls, checked under SpecOps. *)

\* the backend run of call c failed, or the operation could not make its result
\* of the record (no subtitles, no audio-only format, a malformed duration;
\* transcribe_audio reads nothing of the record that can be missing)
BackendFailed(c) ==
    /\ c.pc = "done"
    /\ c.backend = 1
    /\ (c.outcome.kind = "info" => (~c.outcome.complete /\ c.op # "transcription"))

\* store t holds what is live of store s at time clock, and nothing else
LiveOf(s, t, clock) ==
    /\ DOMAIN t \subseteq DOMAIN s
    /\ \A k \in DOMAIN t : t[k] = s[k]
    /\ \A k \in DOMAIN s : (clock - s[k][1] < DEFAULT_TTL_SECONDS) => k \in DOMAIN t

\* in this step caller a begins a call
Begins(a) == ncalls' = ncalls + 1 /\ opcalls'[a] # opcalls[a]

\* in this step the backend run of caller a ends and its operation goes on
Resumes(a) == opcalls[a].pc = "await" /\ opcalls'[a].pc = "done"

\* the call caller a begins in this step has the cache key of the call c: the
\* same operation, the same other argument, and the same canonical URL (for
\* extract_playlist_info, the same URL)
BeginsSameKey(a, c) ==
    /\ Begins(a)
    /\ opcalls'[a].op = c.op
    /\ opcalls'[a].param = c.param
    /\ IF c.op = "playlist" THEN opcalls'[a].url = c.url
       ELSE /\ detect_platform(opcalls'[a].url).ok
            /\ CanonicalOf(opcalls'[a].url) = CanonicalOf(c.url)

\* C11: a call whose backend run or whose making of the result fails has invoked
\* the backend once, raises, and stores nothing: the step in which it fails
\* leaves both caches as they were, the step in which it began took only expired
\* entries out, and the next call with the same key, when no result was stored
\* since the failing call began, invokes the backend again.
C11_FailureStoresNothing ==
    /\ [](\A a \in Callers :
            BackendFailed(opcalls[a]) =>
                /\ opcalls[a].status = "raise"
                /\ opcalls[a].ret.exc \in
                        ExtractionErrors \cup {"BatchError", "OSError", "ValueError"})
    /\ [][\A a \in Callers :
            /\ (Resumes(a) /\ opcalls'[a].status = "raise") =>
                    /\ cache' = cache
                    /\ pcache' = pcache
                    /\ lastStore' = lastStore
                    /\ opcalls'[a].backend = 1
            /\ (Begins(a) /\ opcalls'[a].pc = "await") =>
                    /\ LiveOf(cache, cache', now)
                    /\ LiveOf(pcache, pcache', now)
            /\ \A b \in Callers :
                    (/\ BackendFailed(opcalls[b])
                     /\ lastStore = opcalls[b].prior
                     /\ BeginsSameKey(a, opcalls[b])) =>
                        /\ opcalls'[a].pc = "await"
                        /\ opcalls'[a].backend = 1]_vars

\* a call failed on a record without what the operation reads, nothing is cached,
\* and a call with the same key and another form of the URL runs the backend
C11_Witness ==
    \E a, b \in Callers :
        /\ BackendFailed(opcalls[a])
        /\ opcalls[a].outcome.kind = "info"
        /\ opcalls[a].status = "raise"
        /\ opcalls[b].pc = "await"
        /\ opcalls[b].op = opcalls[a].op
        /\ opcalls[b].key = opcalls[a].key
        /\ opcalls[b].url # opcalls[a].url
        /\ opcalls[b].prior = {}
        /\ lastStore = {}
        /\ DOMAIN cache = {}
        /\ DOMAIN pcache = {}

-----------------------------------------------------------------------------
(* Claims on calls with a URL the resolver rejects, checked under SpecOps. *)

\* the single-URL operations
SingleUrlOps == {"info", "transcript", "audio", "transcription"}

\* in this step caller a begins a call of a single-URL operation with a URL the
\* resolver rejects
BeginsUnresolvable(a) ==
    /\ Begins(a)
    /\ opcalls'[a].op \in SingleUrlOps
    /\ ~validate_url(opcalls'[a].url).ok

\* the call caller a begins in this step ends in it, raising exc, and neither
\* cache, nor the stored results, nor a backend run is touched
RaisesUntouched(a, exc) ==
    /\ opcalls'[a].pc = "done"
    /\ opcalls'[a].status = "raise"
    /\ opcalls'[a].ret.exc = exc
    /\ opcalls'[a].backend = 0
    /\ cache' = cache
    /\ pcache' = pcache
    /\ lastStore' = lastStore

\* C12 as stated: a call of a single-URL operation with a URL the resolver
\* rejects raises InvalidURLError and touches neither the cache nor the backend.
C12_Original ==
    [][\A a \in Callers :
            BeginsUnresolvable(a) => RaisesUntouched(a, "InvalidURLError")]_vars

\* C12, amended: the same for extract_video_info, extract_transcript and
\* transcribe_audio, and for extract_audio_url called with quality "best" or
\* "smallest"; extract_audio_url called with any other quality raises
\* ExtractionError for the quality, the URL unexamined, and likewise touches
\* neither the cache nor the backend.
C12_InvalidUrlFirst ==
    [][\A a \in Callers :
            BeginsUnresolvable(a) =>
                IF opcalls'[a].op = "audio" /\ opcalls'[a].param \notin {"best", "smallest"}
                THEN RaisesUntouched(a, "ExtractionError")
                ELSE RaisesUntouched(a, "InvalidURLError")]_vars

\* a call with an unsupported URL has raised InvalidURLError while the cache
\* holds an entry whose age has reached the time to live, which a lookup would
\* have evicted
C12_Witness ==
    \E a \in Callers :
        /\ opcalls[a].pc = "done"
        /\ opcalls[a].op \in SingleUrlOps
        /\ opcalls[a].url = BadUrl
        /\ opcalls[a].status = "raise"
        /\ opcalls[a].ret.exc = "InvalidURLError"
        /\ opcalls[a].backend = 0
        /\ opcalls[a].t = now
        /\ \E k \in DOMAIN cache : now - cache[k][1] >= DEFAULT_TTL_SECONDS

-----------------------------------------------------------------------------
(* Claims on the keys of the shared cache, checked under SpecOps. *)

\* the calls of the operations on extractor._cache that returned a cached value
HitCalls ==
    {a \in DoneCalls :
        /\ opcalls[a].op \in SingleUrlOps
        /\ opcalls[a].status = "return"
        /\ opcalls[a].backend = 0}

\* C13: a call of a single-URL operation that returns a cached value returns a
\* value that a call of the same operation with the same canonical URL and the
\* same other argument stored, never one stored by another operation or for
\* another argument.
C13_NoCrossOperationHit ==
    \A a \in HitCalls :
        \E e \in SameCanonical(opcalls[a]) : e.value = opcalls[a].ret

-----------------------------------------------------------------------------
(* Claims on _map_error, checked under SpecFn. *)

\* the letter ch in upper case
Upper(ch) == UpperCase[CHOOSE j \in 1..Len(LowerCase) : LowerCase[j] = ch]

\* text holds word, a sequence of lower-case letters, in whatever case
Mentions(text, word) ==
    \E i \in 1..Len(text) :
        /\ i + Len(word) - 1 <= Len(text)
        /\ \A j \in 1..Len(word) : text[i + j - 1] \in {word[j], Upper(word[j])}

Geo == <<"g", "e", "o">>
Private == <<"p", "r", "i", "v", "a", "t", "e">>
Unavailable == <<"u", "n", "a", "v", "a", "i", "l", "a", "b", "l", "e">>

\* the kind of error the rule assigns to a message
KindOf(text) ==
    IF Mentions(text, Geo) THEN "GeoRestrictionError"
    ELSE IF Mentions(text, Private) \/ Mentions(text, Unavailable)
    THEN "VideoUnavailableError"
    ELSE "ExtractionError"

\* C14: for every message _map_error raises, and what it raises is
\* GeoRestrictionError when the message holds "geo" in whatever case, else
\* VideoUnavailableError when it holds "private" or "unavailable" in whatever
\* case, else ExtractionError, with the message unchanged.
C14_Classification ==
    (farg # None /\ farg.fn = "_map_error" /\ fout # None) =>
        /\ fout.exc = KindOf(farg.x.text)
        /\ fout.msg = farg.x

\* a message holding "private" and, in upper or mixed case only, "geo" was
\* classified as a geo restriction
C14_Witness ==
    /\ farg # None
    /\ farg.fn = "_map_error"
    /\ fout # None
    /\ fout.exc = "GeoRestrictionError"
    /\ Mentions(farg.x.text, Private)
    /\ ~Contains(farg.x.text, Geo)

-----------------------------------------------------------------------------
(* Claims on the errors of the operations, checked under SpecOps. *)

\* the calls of the single-URL operations whose backend run raised DownloadError
DownloadFailed ==
    {a \in DoneCalls :
        /\ opcalls[a].op \in SingleUrlOps
        /\ opcalls[a].backend = 1
        /\ opcalls[a].outcome.kind = "DownloadError"}

\* C15: a call of any of the four single-URL operations whose backend run fails
\* with a message raises the error the classification rule assigns to that
\* message, with that message; so two operations given the same failure message
\* raise the same kind of error.
C15_SameErrorKinds ==
    /\ \A a \in DownloadFailed :
            /\ opcalls[a].status = "raise"
            /\ opcalls[a].ret.exc = KindOf(opcalls[a].outcome.msg.text)
            /\ opcalls[a].ret.msg = opcalls[a].outcome.msg
    /\ \A a, b \in DownloadFailed :
            opcalls[a].outcome.msg = opcalls[b].outcome.msg =>
                opcalls[a].ret.exc = opcalls[b].ret.exc

\* transcribe_audio and another operation met the same failure message, one that
\* is not a geo restriction, and raised the same kind of error
C15_Witness ==
    \E a, b \in DownloadFailed :
        /\ opcalls[a].op = "transcription"
        /\ opcalls[b].op \in {"info", "transcript", "audio"}
        /\ opcalls[a].outcome.msg = opcalls[b].outcome.msg
        /\ opcalls[a].ret.exc = "VideoUnavailableError"
        /\ opcalls[b].ret.exc = "VideoUnavailableError"

-----------------------------------------------------------------------------
(* Claims on the routing of the backend run, checked under SpecFn. *)

\* C16: _sync_extract with a remote host configured obtains the record by one
\* call of ssh_extract and does not invoke the local backend; with none
\* configured it invokes the local backend and not ssh_extract.
C16_RoutedByConfig ==
    (farg # None /\ farg.fn = "_sync_extract" /\ fout # None) =>
        IF load_ssh_config(farg.x.env, _PLATFORM_CONFIG_KEY(farg.x.platform)) # None
        THEN fout.invoked = [local |-> 0, remote |-> 1]
        ELSE fout.invoked = [local |-> 1, remote |-> 0]

-----------------------------------------------------------------------------
(* Claims on the tool responses, checked under SpecOps. *)

\* the calls that the tools of video_mcp_server.py make and that raised
FailedToolCalls ==
    {a \in DoneCalls :
        /\ opcalls[a].op \in {"info", "transcript", "audio", "playlist"}
        /\ opcalls[a].status = "raise"}

\* the kind under which the taxonomy reports an exception
TaxonomyKind(exc) ==
    CASE exc.exc = "InvalidURLError" -> "InvalidURL"
      [] exc.exc = "GeoRestrictionError" -> "GeoRestriction"
      [] exc.exc = "VideoUnavailableError" -> "VideoUnavailable"
      [] exc.exc = "ExtractionError" -> "ExtractionError"
      [] exc.exc = "BatchError" -> "BatchError"
      [] OTHER -> "UnexpectedError"

\* the response of the tool whose call a is
ResponseOf(a) == tool_response(opcalls[a].op, opcalls[a].status, opcalls[a].ret)

\* C17: the response of a tool whose operation failed is an error envelope, not
\* an exception, and its kind is that of the failure: InvalidURL for a URL the
\* resolver rejects, GeoRestriction, VideoUnavailable, ExtractionError,
\* BatchError, and UnexpectedError for no failure of these kinds.
C17_OwnKind ==
    \A a \in FailedToolCalls :
        /\ "error" \in DOMAIN ResponseOf(a)
        /\ ResponseOf(a).error = TaxonomyKind(opcalls[a].ret)

-----------------------------------------------------------------------------
(* Claims on detect_platform, checked under SpecFn. *)

\* the calls of detect_platform that returned a result and were repeated
Repeated == farg.fn = "detect_platform" /\ fout # None /\ fagain # None

\* C18: URL resolution is deterministic and idempotent.  Resolving the same URL
\* a second time returns the same platform, canonical URL and video id as the
\* first time; and resolving the canonical URL that was returned for a
\* supported URL returns a result, with the same platform, the same canonical
\* URL and the same video id: the canonical URL is a fixed point.
C18_FixedPoint ==
    Repeated =>
        /\ fagain.same.ok
        /\ fagain.same.platform = fout.platform
        /\ fagain.same.canonical_url = fout.canonical_url
        /\ fagain.same.video_id = fout.video_id
        /\ fagain.canonical.ok
        /\ fagain.canonical.platform = fout.platform
        /\ fagain.canonical.canonical_url = fout.canonical_url
        /\ fagain.canonical.video_id = fout.video_id

\* a Douyin URL of the user form within whitespace, which is not its canonical
\* URL, resolved twice and its canonical URL resolved
C18_Witness ==
    /\ Repeated
    /\ fout.platform = DOUYIN
    /\ fout.video_id # None
    /\ Head(farg.x.text) \in Whitespace
    /\ \E i \in DOMAIN farg.x.text : farg.x.text[i] = "/user/"
    /\ fout.canonical_url # strip(farg.x.text)
    /\ fagain.canonical = fout

\* the pairs of URLs that resolved to the same platform
Paired ==
    /\ farg.fn = "detect_platform"
    /\ fout # None
    /\ fother # None
    /\ fother.out.ok
    /\ fother.out.platform = fout.platform

\* the pairs that designate the same video id
SameVideo == Paired /\ fout.video_id # None /\ fother.out.video_id = fout.video_id

\* C19 as stated: on every platform, two supported forms of URL that designate
\* the same video id resolve to the same canonical URL.
C19_Original == SameVideo => fother.out.canonical_url = fout.canonical_url

\* C19: two supported forms of URL that resolve to youtube, or to douyin, with
\* the same video id resolve to the same canonical URL, whatever their scheme,
\* host, path form, user segment, query parameters and surrounding whitespace.
\* Two URLs that resolve to tiktok have the same canonical URL exactly when
\* they are equal up to surrounding whitespace: the canonical URL of a TikTok
\* URL is the URL itself, trimmed.
C19_SameIdSameCanonical ==
    /\ (SameVideo /\ fout.platform \in {YOUTUBE, DOUYIN})
            => fother.out.canonical_url = fout.canonical_url
    /\ (Paired /\ fout.platform = TIKTOK)
            => ((fother.out.canonical_url = fout.canonical_url)
                    <=> (strip(fother.url.text) = strip(farg.x.text)))

\* a Douyin URL of the user form with query parameters, within whitespace, and
\* one of the video form with another scheme, of the same video
C19_Witness ==
    /\ SameVideo
    /\ fout.platform = DOUYIN
    /\ Head(farg.x.text) \in Whitespace
    /\ \E i \in DOMAIN farg.x.text : farg.x.text[i] = "/user/"
    /\ \E i \in DOMAIN farg.x.text : farg.x.text[i] = "t=10s"
    /\ \E i \in DOMAIN fother.url.text : fother.url.text[i] = "/video/"
    /\ Head(fother.url.text) = "http://"
    /\ fother.out.canonical_url = fout.canonical_url

\* the input matches rule r: the pattern is found somewhere in the text
MatchesRule(x, r) == IsStr(x) /\ search(_PLATFORM_PATTERNS[r][2], x.text) # None

\* the input is no str, is empty or holds whitespace only
Blank(x) == ~IsStr(x) \/ \A i \in DOMAIN x.text : x.text[i] \in Whitespace

\* C20: detect_platform raises InvalidURLError, and returns no result, exactly
\* when its input is not a str, is empty, is whitespace only, or matches none
\* of the rules; for an input that matches a rule it returns a result.
C20_FailsExactlyWhen ==
    (farg.fn = "detect_platform" /\ fout # None) =>
        LET unmatched == \A r \in DOMAIN _PLATFORM_PATTERNS : ~MatchesRule(farg.x, r)
        IN  /\ ~fout.ok <=> (Blank(farg.x) \/ unmatched)
            /\ ~fout.ok => /\ fout.error.exc = "InvalidURLError"
                           /\ "platform" \notin DOMAIN fout
            /\ fout.ok => /\ fout.platform \in {YOUTUBE, TIKTOK, DOUYIN}
                          /\ "error" \notin DOMAIN fout

\* a URL within whitespace that matches the last rule only, resolved
C20_Witness ==
    /\ farg.fn = "detect_platform"
    /\ fout # None
    /\ fout.ok
    /\ Head(farg.x.text) \in Whitespace
    /\ MatchesRule(farg.x, Len(_PLATFORM_PATTERNS))
    /\ \A r \in 1..(Len(_PLATFORM_PATTERNS) - 1) : ~MatchesRule(farg.x, r)

\* the rules the trimmed input matches
MatchingRules(x) ==
    {r \in DOMAIN _PLATFORM_PATTERNS : MatchesRule(Str(strip(x.text)), r)}

\* the first of them in list order
FirstMatching(x) ==
    CHOOSE r \in MatchingRules(x) : \A q \in MatchingRules(x) : r <= q

\* C21: detect_platform answers with the first rule, in list order, that the
\* trimmed input matches: the platform is that rule's; the video id is the id
\* the rule captured, and None exactly when the rule captures none; the
\* canonical URL is https://www.youtube.com/watch?v={id} for a YouTube rule,
\* https://www.douyin.com/video/{id} for a Douyin rule that captured an id, and
\* the trimmed input for every other match.
C21_FirstRuleCanonical ==
    (farg.fn = "detect_platform" /\ fout # None /\ fout.ok) =>
        LET stripped == strip(farg.x.text)
            rule == _PLATFORM_PATTERNS[FirstMatching(farg.x)]
            m == search(rule[2], stripped)
        IN  /\ fout.platform = rule[1]
            /\ (fout.video_id = None) <=> ~rule[3]
            /\ rule[3] => fout.video_id = m.id
            /\ fout.canonical_url =
                  IF rule[1] = YOUTUBE
                  THEN <<"https://", "www.", "youtube.com", "/watch?", "v=">>
                          \o fout.video_id.text
                  ELSE IF rule[1] = DOUYIN /\ rule[3]
                  THEN <<"https://", "www.", "douyin.com", "/video/">>
                          \o fout.video_id.text
                  ELSE stripped

\* a Douyin short link within whitespace whose text also holds a Douyin video
\* URL: two rules match, and the earlier one answered
C21_Witness ==
    /\ farg.fn = "detect_platform"
    /\ fout # None
    /\ fout.ok
    /\ Head(farg.x.text) \in Whitespace
    /\ Cardinality(MatchingRules(farg.x)) = 2
    /\ Len(_PLATFORM_PATTERNS) \in MatchingRules(farg.x)
    /\ fout.platform = DOUYIN
    /\ fout.video_id # None

-----------------------------------------------------------------------------
(* Claims on the selection of formats, checked under SpecSel. *)

\* _select_formats has returned for the list farg.x
Selected == farg.fn = "_select_formats" /\ fout # None

\* the positions of the formats that have video, and that have audio and no video
VideoIdx(formats) == {i \in DOMAIN formats : _has_video(formats[i])}

AudioOnlyIdx(formats) ==
    {i \in DOMAIN formats : _has_audio(formats[i]) /\ ~_has_video(formats[i])}

\* the format carries an id and an extension
Complete(f) ==
    /\ "format_id" \in DOMAIN f /\ f.format_id # ""
    /\ "ext" \in DOMAIN f /\ f.ext # ""

\* the first position of S, in list order, at which Key is least
FirstMin(S, Key(_)) ==
    CHOOSE i \in S : \A j \in S : Key(i) < Key(j) \/ (Key(i) = Key(j) /\ i <= j)

Height(f) == IF "height" \in DOMAIN f THEN f.height ELSE 0

SizeKey(f) ==
    IF "filesize" \in DOMAIN f THEN f.filesize
    ELSE IF "tbr" \in DOMAIN f THEN f.tbr
    ELSE inf

BitrateKey(f) ==
    IF "abr" \in DOMAIN f THEN f.abr
    ELSE IF "tbr" \in DOMAIN f THEN f.tbr
    ELSE 0

\* the slot holds the record of format f, or nothing when f lacks id or extension
Picked(slot, f) ==
    IF Complete(f)
    THEN slot # None /\ slot.format_id = f.format_id /\ slot.ext = f.ext
    ELSE slot = None

\* the first video format of maximal height
BestIdx(formats) == FirstMin(VideoIdx(formats), LAMBDA i : 0 - Height(formats[i]))

\* C22 as stated: best_quality_video is the first video format of maximal
\* height, and it is present whenever some format has video and carries an id
\* and an extension.
C22_Original ==
    Selected =>
        /\ fout[1] # None =>
              /\ VideoIdx(farg.x) # {}
              /\ Picked(fout[1], farg.x[BestIdx(farg.x)])
        /\ (\E i \in VideoIdx(farg.x) : Complete(farg.x[i])) => fout[1] # None

\* C22: best_quality_video is the first format in list order, among the formats
\* that have video, whose height (0 when missing) is maximal; it is present
\* exactly when some format has video and that first format of maximal height
\* carries an id and an extension.
C22_BestQuality ==
    Selected =>
        IF VideoIdx(farg.x) = {} THEN fout[1] = None
        ELSE Picked(fout[1], farg.x[BestIdx(farg.x)])

\* a format without video, then two video formats of the same, maximal height:
\* the first of the two is best_quality_video
C22_Witness ==
    /\ Selected
    /\ Len(farg.x) = 3
    /\ VideoIdx(farg.x) = {2, 3}
    /\ Height(farg.x[2]) = Height(farg.x[3])
    /\ Height(farg.x[2]) > 0
    /\ farg.x[2] # farg.x[3]
    /\ fout[1] # None
    /\ fout[1].format_id = farg.x[2].format_id

\* C23: smallest_video is the first format in list order, among the formats
\* that have video, that minimises filesize, else bitrate, else +infinity; so
\* when no video format has a filesize or a bitrate it is the first of them.
C23_SmallestVideo ==
    Selected =>
        IF VideoIdx(farg.x) = {} THEN fout[2] = None
        ELSE Picked(fout[2],
                    farg.x[FirstMin(VideoIdx(farg.x), LAMBDA i : SizeKey(farg.x[i]))])

\* C24: audio_only is the first format in list order, among the formats with
\* audio and no video, that maximises the audio bitrate, else the generic
\* bitrate, else 0; so when no audio-only format has a bitrate it is the first
\* of them; a format that has video is never selected.
C24_BestAudio ==
    Selected =>
        /\ IF AudioOnlyIdx(farg.x) = {} THEN fout[3] = None
           ELSE Picked(fout[3],
                       farg.x[FirstMin(AudioOnlyIdx(farg.x),
                                       LAMBDA i : 0 - BitrateKey(farg.x[i]))])
        /\ fout[3] # None =>
              \E i \in AudioOnlyIdx(farg.x) :
                  Complete(farg.x[i]) /\ farg.x[i].format_id = fout[3].format_id

\* the raw format selected for slot k: best, smallest, best_audio
RawOf(formats, k) ==
    CASE k = 1 -> best_loop(video_fmts_of(formats), 1, None)
      [] k = 2 -> smallest_loop(video_fmts_of(formats), 1, None)
      [] k = 3 -> best_audio_loop(audio_only_fmts_of(formats), 1, None)

\* C25: a selected raw format that lacks a format id or an extension is
\* dropped: its slot is absent, not a partial record and not the record of
\* another format; a slot that is present is the record of the selected format
\* and has a non-empty id and a non-empty extension.
C25_DroppedNotSubstituted ==
    Selected =>
        \A k \in 1..3 :
            LET raw == RawOf(farg.x, k)
            IN  /\ (raw # None /\ ~Complete(raw)) => fout[k] = None
                /\ fout[k] # None =>
                      /\ fout[k].format_id # ""
                      /\ fout[k].ext # ""
                      /\ raw # None
                      /\ Complete(raw)
                      /\ fout[k].format_id = raw.format_id
                      /\ fout[k].ext = raw.ext

\* the video format of maximal height has no id, another video format has id
\* and extension: best_quality_video is absent
C25_Witness ==
    /\ Selected
    /\ RawOf(farg.x, 1) # None
    /\ "format_id" \notin DOMAIN RawOf(farg.x, 1)
    /\ \E i \in VideoIdx(farg.x) : Complete(farg.x[i])
    /\ fout[1] = None

\* extract_audio_url has returned or raised for the formats of farg
AudioDone == farg.fn = "extract_audio_url" /\ fout # None

\* the positions of the formats with audio, without video, with a stream URL
Qualifying(formats) ==
    {i \in DOMAIN formats :
        /\ _has_audio(formats[i])
        /\ ~_has_video(formats[i])
        /\ "url" \in DOMAIN formats[i]
        /\ formats[i].url # ""}

\* C26: the selection of extract_audio_url considers the formats that have
\* audio, no video and a stream URL.  When there is none, the empty list
\* included, the operation raises ExtractionError and the cache stays empty.
\* Otherwise the format returned is one of them and is stored, and with quality
\* "smallest" it is the first in list order that minimises filesize, else
\* bitrate, else +infinity.
C26_AudioUrlSelection ==
    AudioDone =>
        LET formats == farg.x.formats
            Q == Qualifying(formats)
        IN  IF Q = {}
            THEN /\ fout.status = "raise"
                 /\ fout.value.exc = "ExtractionError"
                 /\ DOMAIN cache = {}
            ELSE /\ fout.status = "return"
                 /\ \E i \in Q : formats[i].url = fout.value.url
                 /\ DOMAIN cache = {fout.key}
                 /\ cache[fout.key][2] = fout.value
                 /\ farg.x.quality = "smallest" =>
                       fout.value.url =
                           formats[FirstMin(Q, LAMBDA i : SizeKey(formats[i]))].url

\* formats with audio, but each with video or without URL: the operation raised
C26_Witness ==
    /\ AudioDone
    /\ Len(farg.x.formats) = 2
    /\ \A i \in DOMAIN farg.x.formats : _has_audio(farg.x.formats[i])
    /\ \E i \in DOMAIN farg.x.formats : _has_video(farg.x.formats[i])
    /\ \E i \in DOMAIN farg.x.formats : "url" \notin DOMAIN farg.x.formats[i]
    /\ fout.status = "raise"
    /\ DOMAIN cache = {}

\* the rank of an extension in m4a > opus > mp3 > ogg > any other
Rank(f) ==
    IF "ext" \notin DOMAIN f THEN 4
    ELSE CASE f.ext = "m4a" -> 0
           [] f.ext = "opus" -> 1
           [] f.ext = "mp3" -> 2
           [] f.ext = "ogg" -> 3
           [] OTHER -> 4

\* the qualifying formats of maximal bitrate and, among them, of first rank
Winners(formats) ==
    LET Q == Qualifying(formats)
        top == {i \in Q : \A j \in Q : BitrateKey(formats[j]) <= BitrateKey(formats[i])}
    IN  {i \in top : \A j \in top : Rank(formats[i]) <= Rank(formats[j])}

\* C27: with quality "best" the format returned is a qualifying format of
\* maximal bitrate (audio bitrate, else generic bitrate, else 0) and, among
\* those, one whose extension ranks first in m4a > opus > mp3 > ogg > any other,
\* wherever the formats stand in the list.
C27_BestAudioUrl ==
    (AudioDone /\ farg.x.quality = "best" /\ Qualifying(farg.x.formats) # {}) =>
        /\ fout.status = "return"
        /\ \E i \in Winners(farg.x.formats) : farg.x.formats[i].url = fout.value.url

\* an ogg format, then an m4a format of the same, maximal bitrate, then one of
\* a lower bitrate: the m4a format is returned
C27_Witness ==
    /\ AudioDone
    /\ farg.x.quality = "best"
    /\ Len(farg.x.formats) = 3
    /\ Qualifying(farg.x.formats) = {1, 2, 3}
    /\ Rank(farg.x.formats[1]) = 3
    /\ Rank(farg.x.formats[2]) = 0
    /\ BitrateKey(farg.x.formats[1]) = BitrateKey(farg.x.formats[2])
    /\ BitrateKey(farg.x.formats[3]) < BitrateKey(farg.x.formats[2])
    /\ fout.status = "return"
    /\ fout.value.url = farg.x.formats[2].url

-----------------------------------------------------------------------------
(* Claims on parse_subtitles, checked under SpecSub. *)

\* parse_subtitles has returned for the text of the document farg.x
Parsed == farg.fn = "parse_subtitles" /\ fout # None

\* hours*3600 + minutes*60 + seconds, in thousandths
Seconds(t) == t.h * 3600000 + t.m * 60000 + t.s * 1000 + t.ms

\* the words of a cue's lines with a single space between the lines
TextOf(cue) ==
    LET words == cue.text.words
    IN  IF Len(words) = 0 THEN << >>
        ELSE IF Len(words) = 1 THEN words[1]
        ELSE words[1] \o <<" ">> \o words[2]

SegmentOf(cue) ==
    [start |-> Seconds(cue.timing.from), end |-> Seconds(cue.timing.to),
     text |-> TextOf(cue)]

LastCue == farg.x.cues[Len(farg.x.cues)]

\* C28: the merge rule.  When the text of a completed cue equals the text of
\* the last segment kept so far, no segment is appended and that segment's end
\* becomes the cue's end, its start and text unchanged; a cue with another text
\* is appended.  So no two adjacent segments have equal text, and a run of
\* cues of one text gives one segment from the first cue's start to the last
\* cue's end.
C28_MergeRule ==
    /\ (Parsed /\ fagain # None /\ LastCue.timing.hours) =>
          LET before == fagain.segments
              seg == SegmentOf(LastCue)
          IN  IF seg.text = << >> THEN fout.segments = before
              ELSE IF Len(before) > 0 /\ before[Len(before)].text = seg.text
              THEN /\ Len(fout.segments) = Len(before)
                   /\ \A k \in 1..(Len(before) - 1) : fout.segments[k] = before[k]
                   /\ fout.segments[Len(before)] =
                          [start |-> before[Len(before)].start, end |-> seg.end,
                           text |-> seg.text]
              ELSE fout.segments = Append(before, seg)
    /\ Parsed =>
          \A k \in 1..(Len(fout.segments) - 1) :
              fout.segments[k].text # fout.segments[k + 1].text
    /\ (/\ Parsed
        /\ Len(farg.x.cues) > 0
        /\ \A k \in DOMAIN farg.x.cues :
              /\ farg.x.cues[k].timing.hours
              /\ TextOf(farg.x.cues[k]) # << >>
              /\ TextOf(farg.x.cues[k]) = TextOf(farg.x.cues[1])) =>
          fout.segments =
              <<[start |-> Seconds(farg.x.cues[1].timing.from),
                 end |-> Seconds(LastCue.timing.to),
                 text |-> TextOf(farg.x.cues[1])]>>

\* two cues of one text, the second written with tags, then a cue of another
\* text: two segments, the first from the first cue's start to the second's end
C28_Witness ==
    /\ Parsed
    /\ fagain # None
    /\ Len(farg.x.cues) = 3
    /\ \A k \in 1..3 : farg.x.cues[k].timing.hours
    /\ TextOf(farg.x.cues[1]) = TextOf(farg.x.cues[2])
    /\ farg.x.cues[1].text # farg.x.cues[2].text
    /\ TextOf(farg.x.cues[3]) \notin {<< >>, TextOf(farg.x.cues[1])}
    /\ Len(fout.segments) = 2
    /\ Len(fagain.segments) = 1
    /\ fout.segments[1].start = Seconds(farg.x.cues[1].timing.from)
    /\ fout.segments[1].end = Seconds(farg.x.cues[2].timing.to)
    /\ fout.segments[1].end # Seconds(farg.x.cues[1].timing.to)

\* the documents whose cues have hours, text, and a text other than the cue
\* before them
Plain(doc) ==
    \A k \in DOMAIN doc.cues :
        /\ doc.cues[k].timing.hours
        /\ TextOf(doc.cues[k]) # << >>
        /\ k > 1 => TextOf(doc.cues[k]) # TextOf(doc.cues[k - 1])

\* C29: each timestamp of a cue becomes hours*3600 + minutes*60 + seconds, the
\* comma of SRT read as the decimal point like the "." of VTT: 00:00:01.000 -->
\* 00:00:04.000 gives start 1.0 and end 4.0, 01:30:00,000 --> 01:30:05,500
\* gives 5400.0 and 5405.5; the cues come out in their order, each with its
\* lines of text joined by a single space.
C29_Timestamps ==
    (Parsed /\ Plain(farg.x)) =>
        /\ Len(fout.segments) = Len(farg.x.cues)
        /\ \A k \in DOMAIN farg.x.cues : fout.segments[k] = SegmentOf(farg.x.cues[k])

\* after a header, the SRT cue 01:30:00,000 --> 01:30:05,500 with two lines of
\* text, then the VTT cue 00:00:01.000 --> 00:00:04.000
C29_Witness ==
    /\ Parsed
    /\ farg.x.header
    /\ Len(farg.x.cues) = 2
    /\ farg.x.cues[1].timing.form = "srt"
    /\ Len(farg.x.cues[1].text.words) = 2
    /\ Len(fout.segments) = 2
    /\ fout.segments[1].start = 5400000
    /\ fout.segments[1].end = 5405500
    /\ fout.segments[1].text = <<"Line one", " ", "Line two">>
    /\ fout.segments[2].start = 1000
    /\ fout.segments[2].end = 4000

\* C30: the hours of a cue's timestamps are optional.  A line MM:SS.mmm -->
\* MM:SS.mmm opens a segment that starts and ends at minutes*60 + seconds, and
\* the lines of text after it are that segment's text.
C30_HoursOptional ==
    (/\ Parsed
     /\ Len(farg.x.cues) > 0
     /\ ~farg.x.cues[1].timing.hours
     /\ TextOf(farg.x.cues[1]) # << >>) =>
        /\ Len(fout.segments) > 0
        /\ fout.segments[1] = SegmentOf(farg.x.cues[1])

\* C31: every segment parse_subtitles returns has start <= end and a text that
\* is not empty, whatever the text parsed, a cue whose end is before its start
\* and runs of merged cues included; a cue whose text is empty after cleaning
\* gives no segment.
C31_SegmentInvariant ==
    Parsed =>
        /\ \A k \in DOMAIN fout.segments :
              /\ fout.segments[k].start <= fout.segments[k].end
              /\ fout.segments[k].text # << >>
        /\ (\A k \in DOMAIN farg.x.cues : TextOf(farg.x.cues[k]) = << >>) =>
              fout.segments = << >>

-----------------------------------------------------------------------------
(* Claims on extract_playlist_info, checked under SpecPl. *)

\* an integer from 1 to 50
ValidMaxVideos(v) == v # None /\ v.type = "int" /\ v.value \in 1..50

\* the call farg of extract_playlist_info has ended
PlaylistDone == farg # None /\ farg.fn = "extract_playlist_info" /\ farg.pc = "done"

\* C32: extract_playlist_info fails with BatchError when max_videos is not an
\* integer or lies outside [1, 50], before any cache lookup (batch._cache is
\* left as it was, its expired entries included) and before any backend run;
\* every integer from 1 to 50, both bounds included, passes the validation.
C32_MaxVideosValidated ==
    /\ \A n \in (0 - 2)..53 :
          LET ran == extract_playlist_info_validated(PlaylistUrl, PyInt(n), pcache, now)
          IN  IF n \in 1..50 THEN ran.status # "raise"
              ELSE /\ ran.status = "raise"
                   /\ ran.value.exc = "BatchError"
                   /\ ran.cache = pcache
    /\ (farg # None /\ ~ValidMaxVideos(farg.max_videos)) =>
          /\ PlaylistDone
          /\ fout.status = "raise"
          /\ fout.value.exc = "BatchError"
          /\ fout.backend = 0
          /\ pcache = farg.before
    /\ (PlaylistDone /\ ValidMaxVideos(farg.max_videos) /\ fout.backend = 0) =>
          fout.status = "return"

\* a call with max_videos = 51 has raised BatchError while batch._cache holds
\* an expired entry, which a lookup would have removed
C32_Witness ==
    /\ PlaylistDone
    /\ farg.max_videos = PyInt(51)
    /\ fout.status = "raise"
    /\ fout.value.exc = "BatchError"
    /\ Expired(pcache, now, DEFAULT_TTL_SECONDS) # {}

\* the call farg ended with a result made of the record its backend run returned
PlaylistBuilt == PlaylistDone /\ fout.status = "return" /\ fout.backend = 1

\* the entries the backend returned to the call
BackendEntries ==
    IF "entries" \in DOMAIN fout.outcome.info THEN fout.outcome.info.entries ELSE << >>

HasId(e) == e # None /\ "id" \in DOMAIN e /\ e.id # ""

\* the positions, among the first max_videos, of the entries with an id
KeptIdx ==
    {k \in DOMAIN BackendEntries :
        k <= farg.max_videos.value /\ HasId(BackendEntries[k])}

\* the j-th of them
NthKept(j) == CHOOSE k \in KeptIdx : Cardinality({m \in KeptIdx : m <= k}) = j

\* C33: the videos of a playlist result are, in the backend's order, exactly
\* the entries with a non-empty id among the first max_videos entries the
\* backend returned: entries without an id are skipped and raise nothing, and
\* there are never more than max_videos videos.
C33_PlaylistVideos ==
    /\ PlaylistBuilt =>
          LET videos == fout.value.videos
          IN  /\ Len(videos) = Cardinality(KeptIdx)
              /\ Len(videos) <= farg.max_videos.value
              /\ \A j \in DOMAIN videos :
                    videos[j].video_id = BackendEntries[NthKept(j)].id
    /\ (PlaylistDone /\ fout.backend = 1 /\ fout.outcome.kind = "info") =>
          fout.status = "return"

\* max_videos = 2 and three entries, a private video without an id, then v2,
\* then v1: the only video is v2
C33_Witness ==
    /\ PlaylistBuilt
    /\ farg.max_videos = PyInt(2)
    /\ Len(BackendEntries) = 3
    /\ ~HasId(BackendEntries[1])
    /\ HasId(BackendEntries[2]) /\ BackendEntries[2].id = "v2"
    /\ HasId(BackendEntries[3]) /\ BackendEntries[3].id = "v1"
    /\ Len(fout.value.videos) = 1
    /\ fout.value.videos[1].video_id = "v2"

-----------------------------------------------------------------------------
(* Claims on ssh.py, checked under SpecSsh. *)

\* ssh_extract has returned or raised for the remote command of farg
Extracted == farg.fn = "ssh_extract" /\ fout # None

RaisedSSHError(first) ==
    /\ fout.status = "raise"
    /\ fout.value.exc = "SSHError"
    /\ fout.value.msg.text[1] = first

\* C34: ssh_extract raises SSHError in three cases, looked at in this order:
\* the remote command exits non-zero, whatever it printed; its output is empty
\* after trimming; its output is not JSON.  It returns a record only when the
\* exit status is zero and the output parses, the record being the one printed;
\* and it runs the remote command once per call.
C34_RemoteFailures ==
    /\ Extracted => Len(fout.calls) = 1
    /\ (Extracted /\ farg.proc.kind = "completed") =>
          LET out == farg.proc.out
          IN  /\ farg.proc.returncode # 0 =>
                    \/ RaisedSSHError("Connection refused")
                    \/ RaisedSSHError("ssh exited with code ")
              /\ (farg.proc.returncode = 0 /\ out.form \in {"empty", "blank"}) =>
                    RaisedSSHError("Remote yt-dlp returned empty output")
              /\ (farg.proc.returncode = 0 /\ out.form \in {"message", "cut", "trailing"}) =>
                    RaisedSSHError("Invalid JSON from remote yt-dlp: ")
              /\ (farg.proc.returncode = 0 /\ out.form = "json") =>
                    /\ fout.status = "return"
                    /\ fout.value = ValueOf(out.doc)
              /\ fout.status = "return" =>
                    farg.proc.returncode = 0 /\ out.form = "json"

\* the remote command printed a record and exited with status 1 and nothing on
\* stderr: SSHError with the exit status
C34_Witness ==
    /\ Extracted
    /\ farg.proc.kind = "completed"
    /\ farg.proc.returncode = 1
    /\ farg.proc.out.form = "json"
    /\ farg.proc.stderr = Str(<< >>)
    /\ fout.status = "raise"
    /\ fout.value = SSHError(<<"ssh exited with code ", "1">>)
    /\ Len(fout.calls) = 1

\* ssh_extract_subtitles has returned or raised for the remote script of farg
SubtitlesExtracted == farg.fn = "ssh_extract_subtitles" /\ fout # None

\* the tracks of language lang in the dict info
TracksOf(info, lang) ==
    IF "subtitles" \in DOMAIN info /\ lang \in DOMAIN info.subtitles
    THEN info.subtitles[lang]
    ELSE << >>

\* C35: ssh_extract_subtitles makes one round trip and splits its output at
\* the first boundary marker.  The part before the marker is parsed as the
\* JSON record; what comes after it, markers included, is the subtitle payload,
\* which is appended under subtitles[lang] of the record when it is not empty.
\* When it is empty or the marker is missing the record is returned as it was
\* printed, and a first part that is not JSON raises SSHError.
C35_SubtitleBoundary ==
    /\ SubtitlesExtracted => Len(fout.calls) = 1
    /\ (SubtitlesExtracted /\ farg.proc.kind = "completed" /\ farg.proc.returncode = 0) =>
          LET out == farg.proc.out
              printed == ValueOf(out.json.doc)
              payload == IF out.marker THEN out.payload ELSE << >>
          IN  /\ (out.json.form = "json" /\ payload = << >>) =>
                    /\ fout.status = "return"
                    /\ fout.value = printed
              /\ (out.json.form = "json" /\ payload # << >>) =>
                    /\ fout.status = "return"
                    /\ DOMAIN fout.value = DOMAIN printed \cup {"subtitles"}
                    /\ \A k \in DOMAIN printed \ {"subtitles"} : fout.value[k] = printed[k]
                    /\ DOMAIN fout.value.subtitles =
                          (IF "subtitles" \in DOMAIN printed THEN DOMAIN printed.subtitles
                           ELSE {}) \cup {farg.lang}
                    /\ \A l \in DOMAIN fout.value.subtitles \ {farg.lang} :
                          fout.value.subtitles[l] = printed.subtitles[l]
                    /\ fout.value.subtitles[farg.lang] =
                          Append(TracksOf(printed, farg.lang),
                                 [data |-> payload, ext |-> "vtt"])
              /\ (out.json.form \in {"message", "cut", "trailing"}) =>
                    RaisedSSHError("Invalid JSON from remote yt-dlp: ")
              /\ (out.json.form \in {"empty", "blank"} /\ out.marker) =>
                    RaisedSSHError("Invalid JSON from remote yt-dlp: ")

\* the record has a track in English already and the subtitle file holds the
\* marker in a line of its text: the whole file is appended as a second track
C35_Witness ==
    /\ SubtitlesExtracted
    /\ farg.proc.kind = "completed"
    /\ farg.proc.returncode = 0
    /\ farg.proc.out.json.form = "json"
    /\ farg.proc.out.marker
    /\ \E i \in DOMAIN farg.proc.out.payload :
          farg.proc.out.payload[i] = SUBTITLE_BOUNDARY
    /\ Len(TracksOf(ValueOf(farg.proc.out.json.doc), "en")) = 1
    /\ fout.status = "return"
    /\ Len(fout.value.subtitles["en"]) = 2
    /\ fout.value.subtitles["en"][2].data = farg.proc.out.payload

\* _build_ytdlp_cli_args has returned for the options of farg
Built == farg.fn = "_build_ytdlp_cli_args" /\ fout # None

\* how often the flag is among the arguments
Count(args, flag) == Cardinality({i \in DOMAIN args : args[i] = <<flag>>})

\* the options and their flags
OptionFlags ==
    _BOOL_FLAGS \o _OPT_MAP
        \o << <<"cookiesfrombrowser", "--cookies-from-browser">>,
              <<"subtitleslangs", "--sub-langs">> >>

\* the option is given and its value is truthy
Truthy(choice, key) ==
    /\ key \in DOMAIN choice
    /\ choice[key].given
    /\ py_truthy(choice[key].v)

\* C36: the arguments _build_ytdlp_cli_args returns start with yt-dlp, end with
\* the URL, hold --dump-json when it is asked for, hold each flag at most once,
\* and hold the flag of an option only when the option is present and truthy:
\* a false boolean, an empty proxy or cookie file, a socket timeout of 0, an
\* empty list of languages and an absent option give no flag.
C36_OnlyTruthyFlags ==
    Built =>
        /\ fout.args[1] = <<"yt-dlp">>
        /\ fout.args[Len(fout.args)] = farg.url.text
        /\ Count(fout.args, "--dump-json") = IF farg.dump_json THEN 1 ELSE 0
        /\ \A k \in DOMAIN OptionFlags :
              /\ Count(fout.args, OptionFlags[k][2]) <= 1
              /\ Count(fout.args, OptionFlags[k][2]) = 1 =>
                    Truthy(farg.choice, OptionFlags[k][1])

-----------------------------------------------------------------------------
(* Claims on the expiring cache, checked under SpecCache (continued). *)

\* the threads inside get or len that have evicted and are about to read the store
Evicted ==
    {t \in Threads : threads[t].pc = "body" /\ threads[t].op.name \in {"get", "len"}}

\* thread t returns from the operation name in this step
Returns(t, name) ==
    /\ threads[t].pc = "body"
    /\ threads[t].op.name = name
    /\ threads'[t].pc = "idle"

\* C37: eviction is lazy and exact.  Every get and len first removes exactly
\* the entries whose age is >= ttl at its reading of the clock, so that the
\* store then holds the keys whose latest set is younger than ttl, each with the
\* value and the insertion time of that set; a get leaves the store as it is
\* (it does not refresh the entry it reads); a set removes no entry and changes
\* no other entry; an entry leaves the store only in the eviction of a get or
\* len and only when its age is >= ttl; len returns the number of live entries.
C37_LazyExactEviction ==
    /\ [](/\ \A t \in Evicted : DOMAIN store = LiveKeys(threads[t].now)
          /\ \A k \in DOMAIN store : store[k] = lastSet[k]
          /\ \A t \in Threads :
                (threads[t].pc = "idle" /\ threads[t].op.name = "len") =>
                    threads[t].ret = threads[t].live)
    /\ [][/\ \A t \in Threads : Returns(t, "get") => store' = store
          /\ \A t \in Threads :
                Returns(t, "set") =>
                    \A k \in DOMAIN store :
                        /\ k \in DOMAIN store'
                        /\ k # threads[t].op.key => store'[k] = store[k]
          /\ \A k \in DOMAIN store :
                k \notin DOMAIN store' =>
                    \E t \in Threads :
                        /\ threads[t].pc = "evict_del"
                        /\ threads[t].op.name \in {"get", "len"}
                        /\ threads[t].now - store[k][1] >= ttl]_vars

\* a get of a key set one second ago has evicted the other key, set ttl ago,
\* and is about to read its own entry, which has the time of its set
C37_Witness ==
    \E t \in Evicted :
        \E k \in Keys :
            /\ threads[t].op.name = "get"
            /\ k # threads[t].op.key
            /\ lastSet[k] # None
            /\ threads[t].now - lastSet[k][1] = ttl
            /\ k \notin DOMAIN store
            /\ threads[t].op.key \in DOMAIN store
            /\ store[threads[t].op.key][1] + 1 = threads[t].now

-----------------------------------------------------------------------------
(* Claims on batch_get_info, checked under SpecLive. *)

\* C38: when every extraction that was started returns or raises,
\* batch_get_info returns for every list it accepts.  A task gives its permit
\* back once, when its extraction has returned and when it has raised: the
\* permits free and held always make _CONCURRENCY, a task that is done stays
\* done and holds nothing, so no task waits for a permit forever, also when
\* the first three items fail; when the batch returns no permit is in use.
C38_BatchTerminates ==
    /\ (bpc = "gather") ~> (bpc = "returned")
    /\ [](bpc = "gather" => sem + Cardinality(Holding) = _CONCURRENCY)
    /\ [](bpc = "returned" =>
            /\ sem = _CONCURRENCY
            /\ waiters = << >>
            /\ Holding = {})
    /\ [][\A i \in 1.._MAX_BATCH :
            (/\ bpc = "gather"
             /\ bpc' # "raised"
             /\ i <= Len(tasks)
             /\ tasks[i].pc = "done") => tasks'[i].pc = "done"]_vars

\* a batch of more URLs than permits has returned; its first three items
\* failed, a later one succeeded, and the three permits are free
C38_Witness ==
    /\ bpc = "returned"
    /\ Len(tasks) > _CONCURRENCY
    /\ \A i \in 1.._CONCURRENCY : ~tasks[i].item.success
    /\ \E i \in 1..Len(tasks) : tasks[i].item.success
    /\ sem = _CONCURRENCY
    /\ waiters = << >>

-----------------------------------------------------------------------------
(* Claims on concurrent calls of extract_video_info, checked under SpecOps. *)

\* callers a and b both await the backend in extract_video_info for one
\* canonical URL
BothAwait(a, b) ==
    /\ a # b
    /\ opcalls[a].pc = "await"
    /\ opcalls[b].pc = "await"
    /\ opcalls[a].op = "info"
    /\ opcalls[b].op = "info"
    /\ opcalls[a].key = opcalls[b].key

\* the step ends the backend run of caller a, whose extract_video_info returns
InfoReturns(a) ==
    /\ opcalls[a].pc = "await"
    /\ opcalls[a].op = "info"
    /\ opcalls'[a].pc = "done"
    /\ opcalls'[a].status = "return"

\* the VideoInfo extract_video_info makes of the record of outcome for caller a
OwnResult(a, outcome) ==
    [type |-> "VideoInfo", webpage_url |-> opcalls[a].key,
     platform |-> opcalls[a].validation.platform, rev |-> outcome.rev]

\* C39: extract_video_info has no single flight.  While two calls for one
\* canonical URL both await the backend, each has missed the cache and invoked
\* the backend once, and the cache has no entry for the key; when one of two
\* such calls returns, and whenever a call that invoked the backend returns, it
\* returns the result made of the record of its own backend run and the cache
\* then holds that result under the key, whatever another call stored there
\* before; no other key of the cache changes.
C39_NoSingleFlight ==
    /\ [](\A a, b \in Callers :
            BothAwait(a, b) =>
                /\ opcalls[a].backend = 1
                /\ opcalls[b].backend = 1
                /\ opcalls[a].key \notin DOMAIN cache)
    /\ [][\A a \in Callers :
            InfoReturns(a) =>
                /\ opcalls'[a].backend = 1
                /\ opcalls'[a].ret = OwnResult(a, opcalls'[a].outcome)
                /\ opcalls[a].key \in DOMAIN cache'
                /\ cache'[opcalls[a].key] = <<now, opcalls'[a].ret>>
                /\ \A k \in (DOMAIN cache') \ {opcalls[a].key} :
                        k \in DOMAIN cache /\ cache'[k] = cache[k]]_vars

\* two calls for one canonical URL, given as two different URLs, overlapped (no
\* time passed, and each invoked the backend); each returned the result of its
\* own record, the two results differ, and the cache holds the one stored last
C39_Witness ==
    \E a, b \in Callers :
        /\ a # b
        /\ opcalls[a].pc = "done" /\ opcalls[b].pc = "done"
        /\ opcalls[a].op = "info" /\ opcalls[b].op = "info"
        /\ opcalls[a].status = "return" /\ opcalls[b].status = "return"
        /\ opcalls[a].backend = 1 /\ opcalls[b].backend = 1
        /\ opcalls[a].url # opcalls[b].url
        /\ opcalls[a].key = opcalls[b].key
        /\ now = 0
        /\ opcalls[a].ret.rev = opcalls[a].outcome.rev
        /\ opcalls[b].ret.rev = opcalls[b].outcome.rev
        /\ opcalls[a].ret # opcalls[b].ret
        /\ Cardinality(DOMAIN cache) = 1
        /\ cache[opcalls[a].key][2] = opcalls[b].ret
        /\ \E e, f \in lastStore :
                /\ e.url = opcalls[a].url /\ f.url = opcalls[b].url
                /\ e.seq < f.seq

-----------------------------------------------------------------------------
(* transcript.py: parse_subtitles statement by statement.  fout holds the    *)
(* locals of the call: pc is "header" (the loop of lines 52-53), "scan" (the *)
(* test of the loop of line 55), "matched" (a line of timestamps was found,  *)
(* line 69 is next), "collect" (line 74 is next), "cue" (line 84 is next) or *)
(* "returned"; lines, i, segments, ts_match, start, end and text_parts are   *)
(* the function's; i counts from 1.  History: top, the value of i at the     *)
(* last test of the loop; branch, the branch the last iteration took;        *)
(* branches, the branches taken so far.                                      *)

\* the line index left where the line of timestamps is
same_line(i) == i

\* transcript.py:71  i += 1, past the line of timestamps
next_line(i) == i + 1

\* the locals of a call at its loops
Locals(pc, lines, i, branches) ==
    [pc |-> pc, lines |-> lines, i |-> i, top |-> i, segments |-> << >>,
     ts_match |-> None, start |-> 0, end |-> 0, text_parts |-> << >>,
     branch |-> "", branches |-> branches]

\* transcript.py:42-51  the guard, splitlines and the test for the VTT header
parse_subtitles_begin(raw) ==
    IF raw = None THEN Locals("returned", << >>, 1, {"guard"})
    ELSE IF ~IsStr(raw) \/ raw.text = << >>
    THEN Locals("returned", << >>, 1, {"guard"})
    ELSE LET lines == splitlines(raw.text)
         IN  IF Len(lines) > 0 /\ strip(lines[1]) # << >>
                    /\ Head(strip(lines[1])) = "WEBVTT"
             THEN Locals("header", lines, 2, {})
             ELSE Locals("scan", lines, 1, {})

\* the cues of the documents parsed step by step: a cue with text, a cue whose
\* timestamps have no hours, an SRT cue and a cue without text
ScanCues ==
    {c \in Cues :
        \/ /\ c.timing.form = "vtt" /\ c.timing.hours
           /\ c.timing.from = Time(0, 0, 1, 0)
           /\ c.text.lines = << <<"Hello", " ", "world">> >>
        \/ /\ ~c.timing.hours
           /\ c.text.lines = << <<"Hello", " ", "world">> >>
        \/ /\ c.timing.form = "srt"
           /\ Len(c.text.lines) = 2
        \/ /\ c.timing.form = "vtt-unspaced"
           /\ c.text.lines = << <<"<b>", "</b>">> >>}

ScanDocs ==
    [header : BOOLEAN, cues : UNION {[1..n -> ScanCues] : n \in 0..MaxCues}]

\* the texts parsed step by step: no value, values that are no str, the empty
\* text, headers alone, texts without a line of timestamps, and the documents
ScanInputs ==
    {None, NotStr, [type |-> "int", text |-> <<"5">>], Str(<< >>)}
        \cup {Str(<<"WEBVTT">>), Str(<<"WEBVTT", "\n", "\n">>),
              Str(<<"WEBVTT", "\n", "Kind: captions", "\n", "\n">>),
              Str(<<"WEBVTT", "\n", "Kind: captions">>)}
        \cup {Str(<<"Hello", " ", "world", "\n">>),
              Str(<<"1", "\n", "Hello", " ", "-->", " ", "world", "\n", "\n", "<b>", "</b>">>),
              Str(<<"\n", " ", "\n">>)}
        \cup {Written(doc) : doc \in ScanDocs}

InitScan ==
    /\ now = 0
    /\ ttl = DEFAULT_TTL_SECONDS
    /\ InitCacheVars
    /\ InitService
    /\ InitBatch
    /\ InitOps
    /\ farg \in [fn : {"parse_subtitles"}, raw : ScanInputs]
    /\ fout = None
    /\ fagain = None
    /\ fother = None

\* the call is at pc
At(pc) == IF fout = None THEN FALSE ELSE fout.pc = pc

\* transcript.py:42-51  parse_subtitles is called
ScanCall ==
    /\ fout = None
    /\ fout' = parse_subtitles_begin(farg.raw)
    /\ UNCHANGED <<farg, fagain, fother>>

\* transcript.py:52-53  while i < len(lines) and lines[i].strip(): i += 1
HeaderStep ==
    /\ At("header")
    /\ fout' = IF fout.i <= Len(fout.lines) /\ strip(fout.lines[fout.i]) # << >>
               THEN [fout EXCEPT !.i = @ + 1, !.branch = "header",
                                 !.branches = @ \cup {"header"}]
               ELSE [fout EXCEPT !.pc = "scan"]
    /\ UNCHANGED <<farg, fagain, fother>>

\* transcript.py:55-67  the test of the loop, the line, and the two branches
\* that skip it; a line of timestamps is kept in ts_match
ScanLine ==
    /\ At("scan")
    /\ fout.i <= Len(fout.lines)
    /\ \E line \in {strip(fout.lines[fout.i])} :
        \E ts_match \in {timestamp_line_search(line, 1)} :
            fout' = IF line = << >> \/ sequence_match(line)
                    THEN [fout EXCEPT !.top = fout.i, !.i = @ + 1, !.branch = "skip",
                                      !.branches = @ \cup {"skip"}]
                    ELSE IF ts_match = None
                    THEN [fout EXCEPT !.top = fout.i, !.i = @ + 1,
                                      !.branch = "no-timestamp",
                                      !.branches = @ \cup {"no-timestamp"}]
                    ELSE [fout EXCEPT !.top = fout.i, !.pc = "matched",
                                      !.ts_match = ts_match]
    /\ UNCHANGED <<farg, fagain, fother>>

\* transcript.py:69-71  start, end and i += 1
ParseTimestamps ==
    /\ At("matched")
    /\ fout' = [fout EXCEPT !.start = _parse_timestamp(fout.ts_match.group1),
                            !.end = _parse_timestamp(fout.ts_match.group2),
                            !.i = next_line(fout.i),
                            !.pc = "collect"]
    /\ UNCHANGED <<farg, fagain, fother>>

\* transcript.py:74-82  the lines of text of the cue
CollectText ==
    /\ At("collect")
    /\ \E got \in {collect_text(fout.lines, fout.i, << >>)} :
            fout' = [fout EXCEPT !.i = got.i, !.text_parts = got.text_parts,
                                 !.pc = "cue"]
    /\ UNCHANGED <<farg, fagain, fother>>

\* transcript.py:84-92  the cue without text is dropped, the cue with text is
\* merged or appended, and the loop goes on
FinishCue ==
    /\ At("cue")
    /\ \E text \in {join(fout.text_parts)} :
            fout' = IF text = << >>
                    THEN [fout EXCEPT !.pc = "scan", !.branch = "empty-cue",
                                      !.branches = @ \cup {"empty-cue"}]
                    ELSE [fout EXCEPT !.pc = "scan", !.branch = "cue",
                                      !.branches = @ \cup {"cue"},
                                      !.segments = merge_or_append(fout.segments,
                                                        fout.start, fout.end, text)]
    /\ UNCHANGED <<farg, fagain, fother>>

\* transcript.py:55, 94  the loop ends and parse_subtitles returns segments
ScanReturn ==
    /\ At("scan")
    /\ fout.i > Len(fout.lines)
    /\ fout' = [fout EXCEPT !.pc = "returned"]
    /\ UNCHANGED <<farg, fagain, fother>>

ScanStep ==
    \/ ScanCall
    \/ HeaderStep
    \/ ScanLine
    \/ ParseTimestamps
    \/ CollectText
    \/ FinishCue
    \/ ScanReturn

NextScan ==
    ScanStep /\ UNCHANGED <<now, cacheVars, svcVars, batchVars, opsVars>>

\* the interpreter goes on executing the statements of the call
ScanFairness == WF_vars(NextScan)

SpecScan == InitScan /\ [][NextScan]_vars /\ ScanFairness

-----------------------------------------------------------------------------
(* Claims on the termination of parse_subtitles, checked under SpecScan. *)

\* the call of parse_subtitles has returned
ScanReturned == At("returned")

\* no line of the text raw holds two timestamps around an arrow
NoTimestampLine(raw) ==
    \A n \in 1..Len(splitlines(raw.text)) :
        timestamp_line_search(strip(splitlines(raw.text)[n]), 1) = None

\* the text raw is a VTT header and nothing else
HeaderOnly(raw) ==
    /\ raw.text # << >>
    /\ Head(raw.text) = "WEBVTT"
    /\ \A n \in 1..Len(raw.text) : raw.text[n] \in {"WEBVTT", "\n", "Kind: captions"}

\* C40: parse_subtitles terminates on every input and its loops advance.  Every
\* call returns; each iteration of the header loop moves the line index one
\* line forward; each iteration of the scanning loop, whatever branch it takes
\* (a skipped line, a line without timestamps, a cue without text, a cue with
\* text), ends with the line index at least one line past where the iteration
\* began and at most one past the last line; the lines are never changed; the
\* value returned is the value of parse_subtitles; and it is the empty list
\* for no value, for a value that is no str, for the empty text, for a header
\* alone and for a text without a line of timestamps.
C40_ParserTerminates ==
    /\ <>ScanReturned
    /\ [][(At("header") /\ fout'.pc = "header") =>
                /\ fout'.i = fout.i + 1
                /\ fout'.i <= Len(fout.lines) + 1]_vars
    /\ [][((At("scan") \/ At("cue")) /\ fout'.pc = "scan") =>
                /\ fout'.i >= fout'.top + 1
                /\ fout'.top >= fout.top
                /\ fout'.i <= Len(fout.lines) + 1
                /\ fout'.branch \in {"skip", "no-timestamp", "empty-cue", "cue"}]_vars
    /\ [][fout # None => fout'.lines = fout.lines]_vars
    /\ [](ScanReturned => fout.segments = parse_subtitles(farg.raw))
    /\ []((/\ ScanReturned
            /\ IF farg.raw = None THEN TRUE
               ELSE IF ~IsStr(farg.raw) THEN TRUE
               ELSE \/ farg.raw.text = << >>
                    \/ HeaderOnly(farg.raw)
                    \/ NoTimestampLine(farg.raw))
                => fout.segments = << >>)

\* a text with a header has been parsed to its end through every branch of
\* the loops, and gave a segment
C40_Witness ==
    /\ ScanReturned
    /\ fout.branches = {"header", "skip", "no-timestamp", "empty-cue", "cue"}
    /\ Len(fout.segments) > 0
    /\ fout.i = Len(fout.lines) + 1

====
